---- MODULE Spec2Model ----
(***************************************************************************)
(* Model of the zero-sum reconciliation engine of core_recon_engine.py:    *)
(* CandidateRuleEngine (prepare_data, the two subset generators,           *)
(* process_state, register_solution, the level-synchronous parallel BFS),  *)
(* StandaloneSearchWorker (run_search / cancel) and the Union-Find of      *)
(* compute_clusters_from_pairs.                                            *)
(*                                                                         *)
(* Amounts, target and tolerance are integers (amounts in minor units).    *)
(* Rows are numbered from 0 as in the source; masks are sets of row        *)
(* numbers; a rule (a dict in insertion order) is a sequence of            *)
(* [col, cats] entries.                                                    *)
(***************************************************************************)
EXTENDS Integers, Sequences, FiniteSets, TLC

VARIABLES
    \* ---- StandaloneSearchWorker fields and the two threads' positions
    df, candidate_cols, target, tol_value, static_ordering, subset_mode,
    worker_cancel, worker_engine, run_pc, cancel_pc, cancel_calls, finished_out, exc,
    \* ---- CandidateRuleEngine fields
    TARGET_SUM, tol, value_array, int_cat_arrays, all_categories,
    kept_indices, zero_rows_excluded, progress_callback,
    cancel_search, candidate_rule_results, memoization_cache,
    solution_mask_map, solution_counter, progress_msgs,
    \* ---- parallel_bfs_search_rule_dynamic locals and the executor's tasks
    current_level, next_level, futures, fi, bfs_pc, level,
    \* ---- compute_clusters_from_pairs
    df_pairs, parent, root_to_id, counter, result, uf_pc, uf_i,
    \* ---- the SumMatchWindow object; ReconWorker's fields and run's locals
    window, recon,
    \* ---- one call of a subset generator on a prepared engine
    gen_call

workerVars == <<df, candidate_cols, target, tol_value, static_ordering, subset_mode>>
threadVars == <<worker_cancel, worker_engine, run_pc, cancel_pc, cancel_calls,
                finished_out, exc>>
dataVars   == <<TARGET_SUM, tol, value_array, int_cat_arrays, all_categories,
                kept_indices, zero_rows_excluded, progress_callback>>
regVars    == <<candidate_rule_results, solution_mask_map, solution_counter,
                progress_msgs>>
bfsVars    == <<current_level, next_level, futures, fi, bfs_pc, level>>
ufVars     == <<df_pairs, parent, root_to_id, counter, result, uf_pc, uf_i>>
uiVars     == <<window, recon, gen_call>>
vars       == <<workerVars, threadVars, dataVars, regVars, bfsVars, ufVars,
                uiVars, cancel_search, memoization_cache>>

(***************************************************************************)
(* Bounds of the model.                                                    *)
(***************************************************************************)
MaxRows    == 3     \* rows of the input table
MaxCols    == 2     \* grouping columns
MaxCatVal  == 1     \* raw category values are 0..MaxCatVal
CpuCount   == 4     \* os.cpu_count() of the machine
MaxPairs   == 3     \* rows of the pair table
MaxCancelCalls == 1 \* calls of StandaloneSearchWorker.cancel
MaxTaskErrors == 1  \* calls of the progress sink that raise
MaxClusters == 2    \* clusters ReconWorker.run iterates over
MaxClusterRows == 2 \* rows of a cluster
MaxLaunches == 2    \* searches started, and clicks on Stop, in the window

RawAmounts == {-1, 0, 1}
Targets    == {0, 1}
Tolerances == {0}

\* float("inf") given as a tolerance: it is above every sum of amounts
Infinity == 2 ^ 20

None == "None"

(***************************************************************************)
(* Small helpers: sorted sequence of a set of integers, sums.              *)
(***************************************************************************)
Min(S) == CHOOSE x \in S : \A y \in S : x <= y

RECURSIVE SortedSeq(_)
SortedSeq(S) == IF S = {} THEN <<>>
                ELSE <<Min(S)>> \o SortedSeq(S \ {Min(S)})

Abs(x) == IF x < 0 THEN -x ELSE x

Range(s) == {s[i] : i \in DOMAIN s}

\* a 0-based array (numpy array / list) with the elements of sequence s
Arr(s) == [i \in 0..(Len(s) - 1) |-> s[i + 1]]

ArrLen(a) == Cardinality(DOMAIN a)

(***************************************************************************)
(* CandidateRuleEngine.prepare_data: zero-amount rows are dropped, every   *)
(* grouping column is encoded as contiguous ids in sorted order of the     *)
(* values observed in the kept rows.  Raw category values are the digits   *)
(* 0..MaxCatVal, whose order by str() is their numeric order.              *)
(***************************************************************************)
\* a filter that keeps the rows of positive amount only
NonZero_PositiveOnly(d) == {i \in DOMAIN d : d[i].amt > 0}

\* line 140: the rows whose amount is not zero
NonZero(d) == {i \in DOMAIN d : d[i].amt # 0}

KeptIndices(d) == Arr(SortedSeq(NonZero(d)))

ZeroRowsExcluded(d) == Cardinality(DOMAIN d \ NonZero(d))

ValueArray(d) ==
    LET kept == KeptIndices(d)
    IN  [j \in DOMAIN kept |-> d[kept[j]].amt]

UniqueVals(d, col) == {d[i].cat[col] : i \in NonZero(d)}

C2I(d, col, v) == Cardinality({u \in UniqueVals(d, col) : u < v})

IntCatArrays(d, cols) ==
    LET kept == KeptIndices(d)
    IN  [col \in Range(cols) |->
            [j \in DOMAIN kept |-> C2I(d, col, d[kept[j]].cat[col])]]

AllCategories(d, cols) ==
    [col \in Range(cols) |-> 0..(Cardinality(UniqueVals(d, col)) - 1)]

(***************************************************************************)
(* Engine helpers.                                                         *)
(***************************************************************************)
all_columns == candidate_cols

subset_generation_mode == IF subset_mode = "New Mode" THEN "new" ELSE "original"

AllRows == DOMAIN value_array

\* cat_masks[col][c]: the rows whose code in col is c
cat_masks(col, c) == {j \in AllRows : int_cat_arrays[col][j] = c}

\* np.logical_or.reduce([cat_masks[col][c] for c in cats]); no row for an empty list
OrReduce(col, cats) == UNION {cat_masks(col, c) : c \in cats}

RECURSIVE SumRows(_)
SumRows(mask) ==
    IF mask = {} THEN 0
    ELSE LET j == Min(mask) IN value_array[j] + SumRows(mask \ {j})

RuleCols(rule) == {rule[i].col : i \in DOMAIN rule}

RuleGet(rule, col) == (CHOOSE i \in DOMAIN rule : rule[i].col = col)

RuleCats(rule, col) == rule[RuleGet(rule, col)].cats

\* the entries of the key for the first n columns of all_columns
RECURSIVE KeyUpTo(_, _)
KeyUpTo(rule, n) ==
    IF n = 0 THEN <<>>
    ELSE IF all_columns[n] \in RuleCols(rule)
         THEN Append(KeyUpTo(rule, n - 1),
                <<all_columns[n], SortedSeq(RuleCats(rule, all_columns[n]))>>)
         ELSE KeyUpTo(rule, n - 1)

rule_to_key(rule) == KeyUpTo(rule, Len(all_columns))

mirror_rule(rule) ==
    IF rule = <<>> THEN <<>>
    ELSE LET last_col == rule[Len(rule)].col
         IN  [i \in DOMAIN rule |->
                IF rule[i].col = last_col
                THEN [col |-> rule[i].col,
                      cats |-> all_categories[rule[i].col] \ rule[i].cats]
                ELSE rule[i]]

\* an upper bound that counts the negative amounts too
UpperBound_WholeSum(mask) == SumRows(mask)

UpperBound(mask) == SumRows({j \in mask : value_array[j] >= 0})

LowerBound(mask) == SumRows({j \in mask : value_array[j] <= 0})

\* check_pruning that also rejects a bound that equals the limit
check_pruning_Strict(mask, current_sum) ==
    IF current_sum < TARGET_SUM
    THEN ~(UpperBound(mask) <= TARGET_SUM - tol)
    ELSE IF current_sum > TARGET_SUM
         THEN ~(LowerBound(mask) >= TARGET_SUM + tol)
         ELSE TRUE

check_pruning(mask, current_sum) ==
    IF current_sum < TARGET_SUM
    THEN ~(UpperBound(mask) < TARGET_SUM - tol)
    ELSE IF current_sum > TARGET_SUM
         THEN ~(LowerBound(mask) > TARGET_SUM + tol)
         ELSE TRUE

Matches(s) == Abs(s - TARGET_SUM) <= tol

(***************************************************************************)
(* The subset generators.  A generator is lazy in the source, but what it  *)
(* yields depends only on data that is immutable during the search, so it  *)
(* is the sequence of its yields.                                          *)
(***************************************************************************)
\* get_mask without the rows selected so far
get_mask_Unrestricted(col, current_mask, candidate) == OrReduce(col, candidate)

get_mask(col, current_mask, candidate) == current_mask \cap OrReduce(col, candidate)

Triple(subset, mask, s) == [subset |-> subset, mask |-> mask, sum |-> s]

\* a generator whose inline test never skips a candidate
InlinePruned_Never(nm, ns) == FALSE

\* the pruning test written inline in both generators (lines 200-207, 235-244)
InlinePruned(nm, ns) ==
    \/ ns < TARGET_SUM /\ UpperBound(nm) < TARGET_SUM - tol
    \/ ns > TARGET_SUM /\ LowerBound(nm) > TARGET_SUM + tol

\* the yields for one candidate without the test that the mirror is non-empty
CandidateYields_EmptyMirror(col, avail, current_mask, nc) ==
    LET nm   == get_mask(col, current_mask, nc)
        ns   == SumRows(nm)
        mr   == avail \ nc
        msum == SumRows(AllRows) - ns
    IN  (IF check_pruning(nm, ns) THEN <<Triple(nc, nm, ns)>> ELSE <<>>)
        \o (IF check_pruning(nm, msum) /\ Matches(msum)
            THEN <<Triple(mr, get_mask(col, current_mask, mr), msum)>>
            ELSE <<>>)

\* the yields for one candidate nc: the candidate, then its mirror
CandidateYields(col, avail, current_mask, nc) ==
    LET nm   == get_mask(col, current_mask, nc)
        ns   == SumRows(nm)
        mr   == avail \ nc
        msum == SumRows(AllRows) - ns
    IN  (IF check_pruning(nm, ns) THEN <<Triple(nc, nm, ns)>> ELSE <<>>)
        \o (IF mr # {} /\ check_pruning(nm, msum) /\ Matches(msum)
            THEN <<Triple(mr, get_mask(col, current_mask, mr), msum)>>
            ELSE <<>>)

RECURSIVE rec(_, _, _, _, _)
rec(col, avail, current_mask, curr, i) ==
    IF i >= Cardinality(curr) THEN <<>>
    ELSE LET nc == curr \ {SortedSeq(curr)[i + 1]}
             nm == get_mask(col, current_mask, nc)
             ns == SumRows(nm)
             here == IF nc = {} \/ InlinePruned(nm, ns) THEN <<>>
                     ELSE CandidateYields(col, avail, current_mask, nc)
                          \o rec(col, avail, current_mask, nc, i)
         IN  here \o rec(col, avail, current_mask, curr, i + 1)

\* the candidates the loop of rec builds (lines 194-195) and, of those, the
\* ones rec is called on (line 215), in the order of the run of rec(curr, i)
RECURSIVE rec_looked(_, _, _, _, _)
rec_looked(col, avail, current_mask, curr, i) ==
    IF i >= Cardinality(curr) THEN <<>>
    ELSE LET nc == curr \ {SortedSeq(curr)[i + 1]}
             nm == get_mask(col, current_mask, nc)
             ns == SumRows(nm)
             below == IF nc = {} \/ InlinePruned(nm, ns) THEN <<>>
                      ELSE rec_looked(col, avail, current_mask, nc, i)
         IN  <<nc>> \o below \o rec_looked(col, avail, current_mask, curr, i + 1)

RECURSIVE rec_calls(_, _, _, _, _)
rec_calls(col, avail, current_mask, curr, i) ==
    IF i >= Cardinality(curr) THEN <<>>
    ELSE LET nc == curr \ {SortedSeq(curr)[i + 1]}
             nm == get_mask(col, current_mask, nc)
             ns == SumRows(nm)
             below == IF nc = {} \/ InlinePruned(nm, ns) THEN <<>>
                      ELSE <<nc>> \o rec_calls(col, avail, current_mask, nc, i)
         IN  below \o rec_calls(col, avail, current_mask, curr, i + 1)

\* the generator without its first candidate, the whole of avail
generate_candidate_subsets_pruned_original_ProperOnly(col, avail, current_mask) ==
    rec(col, avail, current_mask, avail, 0)

generate_candidate_subsets_pruned_original(col, avail, current_mask) ==
    CandidateYields(col, avail, current_mask, avail)
    \o rec(col, avail, current_mask, avail, 0)

\* itertools.combinations(list, r), in its order
RECURSIVE Combinations(_, _)
Combinations(list, r) ==
    IF r = 0 THEN << <<>> >>
    ELSE IF Len(list) < r THEN <<>>
    ELSE LET withHead == Combinations(Tail(list), r - 1)
         IN  [k \in 1..Len(withHead) |-> <<Head(list)>> \o withHead[k]]
             \o Combinations(Tail(list), r)

RECURSIVE CombosFrom(_, _)
CombosFrom(list, r) ==
    IF r = 0 THEN <<>> ELSE Combinations(list, r) \o CombosFrom(list, r - 1)

RECURSIVE NewLoop(_, _, _, _, _, _)
NewLoop(col, avail, current_mask, combos, k, pruned) ==
    IF k > Len(combos) THEN <<>>
    ELSE LET candidate == Range(combos[k])
             nm == get_mask(col, current_mask, candidate)
             ns == SumRows(nm)
         IN  IF \E p \in pruned : candidate \subseteq p
             THEN NewLoop(col, avail, current_mask, combos, k + 1, pruned)
             ELSE IF InlinePruned(nm, ns)
             THEN NewLoop(col, avail, current_mask, combos, k + 1,
                          pruned \cup {candidate})
             ELSE CandidateYields(col, avail, current_mask, candidate)
                  \o NewLoop(col, avail, current_mask, combos, k + 1, pruned)

\* New mode that starts below the whole of avail
generate_candidate_subsets_pruned_new_ProperOnly(col, avail, current_mask) ==
    LET avail_list == SortedSeq(avail)
    IN  NewLoop(col, avail, current_mask,
                CombosFrom(avail_list, Len(avail_list) - 1), 1, {})

generate_candidate_subsets_pruned_new(col, avail, current_mask) ==
    LET avail_list == SortedSeq(avail)
    IN  NewLoop(col, avail, current_mask,
                CombosFrom(avail_list, Len(avail_list)), 1, {})

(***************************************************************************)
(* complete_rule, register_solution.  The registry is the record           *)
(* [results, map, counter, msgs] of candidate_rule_results,                *)
(* solution_mask_map, solution_counter and the messages sent to the        *)
(* progress callback.  A result is the completed rule with its             *)
(* "_solution_id" entry.                                                   *)
(***************************************************************************)
Avail(col, mask) == {int_cat_arrays[col][j] : j \in mask}

\* the rule after the loop of lines 258-261 has visited the first n columns
RECURSIVE CompleteUpTo(_, _, _)
CompleteUpTo(partial_rule, current_mask, n) ==
    IF n = 0 THEN partial_rule
    ELSE LET done == CompleteUpTo(partial_rule, current_mask, n - 1)
         IN  IF all_columns[n] \in RuleCols(partial_rule) THEN done
             ELSE Append(done, [col |-> all_columns[n],
                                cats |-> Avail(all_columns[n], current_mask)])

complete_rule(partial_rule, current_mask) ==
    CompleteUpTo(partial_rule, current_mask, Len(all_columns))

\* the mask a rule selects (lines 266-271, and 633-638 of the attribution)
FullMask(rule) ==
    {j \in AllRows :
        \A i \in DOMAIN rule :
            rule[i].col \in Range(all_columns) =>
                j \in OrReduce(rule[i].col, rule[i].cats)}

MaskKey(mask) == SortedSeq(mask)

Registry == [results |-> candidate_rule_results, map |-> solution_mask_map,
             counter |-> solution_counter, msgs |-> progress_msgs]

EmptyMap == [k \in {} |-> 0]

\* {}: a dict without keys
EmptyDict == <<>>

EmptyRegistry == [results |-> <<>>, map |-> EmptyMap, counter |-> 0, msgs |-> <<>>]

\* lines 105-107 and 286: _log hands the message to the progress callback
\* when the engine has one
Log(msgs, msg) == IF progress_callback # None THEN Append(msgs, msg) ELSE msgs

\* register_solution without the test of line 276
AlreadyRegistered_NeverRejects(reg, mask_key) == FALSE

\* the check under memo_lock (line 276)
AlreadyRegistered(reg, mask_key) == mask_key \in DOMAIN reg.map

\* lines 275-289
register_solution(reg, complete, current_sum) ==
    LET mask_key == MaskKey(FullMask(complete))
        sid      == reg.counter + 1
    IN  IF AlreadyRegistered(reg, mask_key)
        THEN [reg |-> reg, ret |-> FALSE]
        ELSE [reg |-> [results |-> Append(reg.results,
                                     [rule |-> complete, solution_id |-> sid]),
                       map     |-> [k \in DOMAIN reg.map \cup {mask_key} |->
                                     IF k = mask_key THEN sid ELSE reg.map[k]],
                       counter |-> sid,
                       msgs    |-> Log(reg.msgs,
                                     [solution_id |-> sid, sum |-> current_sum])],
              ret |-> TRUE]

\* lines 278-287 when the progress callback raises inside _log (line 107):
\* the id is taken and the fingerprint inserted, the exception leaves
\* register_solution before the message is delivered and before line 288
register_solution_raising(reg, complete) ==
    LET mask_key == MaskKey(FullMask(complete))
        sid      == reg.counter + 1
    IN  [results |-> reg.results,
         map     |-> [k \in DOMAIN reg.map \cup {mask_key} |->
                        IF k = mask_key THEN sid ELSE reg.map[k]],
         counter |-> sid,
         msgs    |-> reg.msgs]

\* a dict filled in the order of results, result i under the key keys[i]: it
\* keeps the position of a key's first insertion and the key's last value
DictValues(results, keys) ==
    LET first(k) == Min({i \in DOMAIN results : keys[i] = k})
        last(k)  == CHOOSE i \in DOMAIN results :
                        /\ keys[i] = k
                        /\ \A j \in DOMAIN results : keys[j] = k => j <= i
        order == SortedSeq({first(k) : k \in Range(keys)})
    IN  [n \in 1..Len(order) |-> results[last(keys[order[n]])]]

\* get_candidate_results keyed by the first grouping column alone
get_candidate_results_FirstColumnKey(results) ==
    DictValues(results, [i \in DOMAIN results |->
                            SubSeq(rule_to_key(results[i].rule), 1, 1)])

get_candidate_results(results) ==
    DictValues(results, [i \in DOMAIN results |-> rule_to_key(results[i].rule)])

(***************************************************************************)
(* process_state, cut at the points where it takes memo_lock.              *)
(***************************************************************************)
State(rule, mask) == [rule |-> rule, mask |-> mask]

Remaining(rule) == SelectSeq(all_columns, LAMBDA c : c \notin RuleCols(rule))

\* a minimum that takes the last column of least count
MinDomainCol_LastOfLeast(remaining, mask) ==
    LET n(c) == Cardinality(Avail(c, mask))
        k == CHOOSE k \in DOMAIN remaining :
                /\ \A j \in DOMAIN remaining : n(remaining[k]) <= n(remaining[j])
                /\ \A j \in (k + 1)..Len(remaining) : n(remaining[j]) > n(remaining[k])
    IN  remaining[k]

\* min(remaining, key=len(avail)): the first column of least count
MinDomainCol(remaining, mask) ==
    LET n(c) == Cardinality(Avail(c, mask))
        k == CHOOSE k \in DOMAIN remaining :
                /\ \A j \in DOMAIN remaining : n(remaining[k]) <= n(remaining[j])
                /\ \A j \in 1..(k - 1) : n(remaining[j]) > n(remaining[k])
    IN  remaining[k]

NextCol(rule, mask) ==
    IF static_ordering THEN Remaining(rule)[1]
    ELSE MinDomainCol(Remaining(rule), mask)

Generator(col, av, mask) ==
    IF subset_generation_mode = "new"
    THEN generate_candidate_subsets_pruned_new(col, av, mask)
    ELSE generate_candidate_subsets_pruned_original(col, av, mask)

\* lines 300-310: the check-and-insert under memo_lock
MemoDup(memo, state) ==
    \/ rule_to_key(state.rule) \in memo
    \/ rule_to_key(mirror_rule(state.rule)) \in memo

\* the memoization check that inserts nothing
MemoInsert_Nothing(memo, state) == memo

MemoInsert(memo, state) ==
    memo \cup {rule_to_key(state.rule), rule_to_key(mirror_rule(state.rule))}

\* lines 296-349: where process_state goes after the memoization check
\*   "register": the state itself is to be registered, then return []
\*   "gen":      iterate the generator gen for column col
\*   "done":     return []
ProcessBegin(state, memo) ==
    LET current_sum == SumRows(state.mask)
        stop(st) == [memo |-> memo, st |-> st, col |-> 0, gen |-> <<>>]
    IN  IF MemoDup(memo, state)
        THEN IF Matches(current_sum) THEN stop("register") ELSE stop("done")
        ELSE LET m2 == MemoInsert(memo, state)
                 out(st) == [memo |-> m2, st |-> st, col |-> 0, gen |-> <<>>]
             IN  IF ~check_pruning(state.mask, current_sum) THEN out("done")
                 ELSE IF Remaining(state.rule) = <<>>
                 THEN IF Matches(current_sum) THEN out("register") ELSE out("done")
                 ELSE LET next_col == NextCol(state.rule, state.mask)
                          av == Avail(next_col, state.mask)
                          gen == Generator(next_col, av, state.mask)
                      IN  IF av = {} \/ gen = <<>> THEN out("done")
                          ELSE [memo |-> m2, st |-> "gen", col |-> next_col,
                                gen |-> gen]

\* what a caller of register_solution would see returned
RetStr(b) == IF b THEN "True" ELSE "False"

\* lines 313-316 and 324-327: register the state itself
ProcessRegister(state, reg) ==
    register_solution(reg, complete_rule(state.rule, state.mask),
                      SumRows(state.mask))

\* a loop body whose children keep the rule of their parent
ProcessYield_KeepsRule(current_rule, next_col, t, reg) ==
    IF ~check_pruning(t.mask, t.sum)
    THEN [reg |-> reg, ret |-> None, child |-> <<>>]
    ELSE [reg |-> reg, ret |-> None, child |-> <<State(current_rule, t.mask)>>]

\* lines 355-362: the body of the loop for one yielded triple
ProcessYield(current_rule, next_col, t, reg) ==
    IF ~check_pruning(t.mask, t.sum)
    THEN [reg |-> reg, ret |-> None, child |-> <<>>]
    ELSE LET new_rule == Append(current_rule, [col |-> next_col, cats |-> t.subset])
             r == register_solution(reg, complete_rule(new_rule, t.mask), t.sum)
         IN  IF Matches(t.sum)
             THEN [reg |-> r.reg, ret |-> RetStr(r.ret),
                   child |-> <<State(new_rule, t.mask)>>]
             ELSE [reg |-> reg, ret |-> None,
                   child |-> <<State(new_rule, t.mask)>>]

(***************************************************************************)
(* next_level.sort(key=rule_to_key): a stable sort by the tuple order of   *)
(* the keys.  Columns are named so that their names sort in declared order.*)
(***************************************************************************)
TupleLess(a, b) ==
    \E i \in 1..Len(b) :
        /\ \A j \in 1..(i - 1) : j <= Len(a) /\ a[j] = b[j]
        /\ (i > Len(a) \/ (i <= Len(a) /\ a[i] < b[i]))

KeyElemLess(e1, e2) ==
    \/ e1[1] < e2[1]
    \/ e1[1] = e2[1] /\ TupleLess(e1[2], e2[2])

KeyLess(k1, k2) ==
    \E i \in 1..Len(k2) :
        /\ \A j \in 1..(i - 1) : j <= Len(k1) /\ k1[j] = k2[j]
        /\ (i > Len(k1) \/ (i <= Len(k1) /\ KeyElemLess(k1[i], k2[i])))

\* insert x after every element whose key is not greater (stable)
InsertSorted(sorted, x) ==
    LET kx == rule_to_key(x.rule)
        n  == Cardinality({i \in DOMAIN sorted : ~KeyLess(kx, rule_to_key(sorted[i].rule))})
    IN  SubSeq(sorted, 1, n) \o <<x>> \o SubSeq(sorted, n + 1, Len(sorted))

RECURSIVE SortByRuleKey(_)
SortByRuleKey(states) ==
    IF states = <<>> THEN <<>>
    ELSE InsertSorted(SortByRuleKey(SubSeq(states, 1, Len(states) - 1)),
                      states[Len(states)])

(***************************************************************************)
(* Inputs.  A table is MaxRows rows of an amount and one raw category      *)
(* value per grouping column.  The engine depends on the order of the rows *)
(* only through their numbering, so tables are taken with their rows in    *)
(* one fixed order of the row types.                                       *)
(***************************************************************************)
CatTuples == [1..MaxCols -> 0..MaxCatVal]

RowTypes == [amt : RawAmounts, cat : CatTuples]

RowLeq(r1, r2) ==
    \/ r1.cat # r2.cat /\ TupleLess(r1.cat, r2.cat)
    \/ r1.cat = r2.cat /\ r1.amt <= r2.amt

SortedTables ==
    {d \in [0..(MaxRows - 1) -> RowTypes] :
        \A i \in 0..(MaxRows - 2) : RowLeq(d[i], d[i + 1])}

(***************************************************************************)
(* The tables the search is run on.  The pool runs the tasks of a level in *)
(* every interleaving, and the number of tasks of a level grows with the   *)
(* number of category tuples among the rows that prepare_data keeps, so    *)
(* the tables are taken by that number:                                    *)
(*   - every table whose kept rows have one category tuple, zero-amount    *)
(*     rows and every amount included (one task per level);                *)
(*   - the tables without zero-amount row whose rows have two category     *)
(*     tuples, the first row being -1 in categories (0, ..., 0); where the *)
(*     tuples differ in every column, rows of one tuple have one amount    *)
(*     (up to five tasks in a level);                                      *)
(*   - one table of three category tuples (up to nine tasks in a level,    *)
(*     more than the pool has threads), searched with dynamic ordering and *)
(*     the original generator.                                             *)
(***************************************************************************)
\* the category tuples of the rows that prepare_data keeps (line 138)
Shapes(d) == {d[i].cat : i \in {j \in DOMAIN d : d[j].amt # 0}}

FirstRow == [amt |-> -1, cat |-> [c \in 1..MaxCols |-> 0]]

OneShapeTables == {d \in SortedTables : Cardinality(Shapes(d)) <= 1}

TwoShapeTables ==
    {d \in SortedTables :
        /\ \A i \in DOMAIN d : d[i].amt # 0
        /\ d[0] = FirstRow
        /\ Cardinality(Shapes(d)) = 2
        /\ \/ \E c \in 1..MaxCols : \A i, j \in DOMAIN d : d[i].cat[c] = d[j].cat[c]
           \/ \A i, j \in DOMAIN d : d[i].cat = d[j].cat => d[i].amt = d[j].amt}

ThreeShapeTable ==
    [i \in 0..2 |->
        <<[amt |-> -1, cat |-> <<0, 0>>],
          [amt |-> 1,  cat |-> <<0, 1>>],
          [amt |-> 1,  cat |-> <<1, 1>>]>>[i + 1]]

Tables == OneShapeTables \cup TwoShapeTables \cup {ThreeShapeTable}

AllCols == [i \in 1..MaxCols |-> i]

(***************************************************************************)
(* Initial state: a StandaloneSearchWorker has been constructed            *)
(* (lines 580-592); its thread has not run yet.                            *)
(***************************************************************************)
EngineFresh ==
    /\ TARGET_SUM = None
    /\ tol = tol_value
    /\ value_array = None
    /\ int_cat_arrays = EmptyDict
    /\ all_categories = EmptyDict
    /\ kept_indices = None
    /\ zero_rows_excluded = 0
    /\ progress_callback = None
    /\ cancel_search = FALSE
    /\ candidate_rule_results = <<>>
    /\ memoization_cache = {}
    /\ solution_mask_map = EmptyMap
    /\ solution_counter = 0
    /\ progress_msgs = <<>>
    /\ current_level = <<>>
    /\ next_level = <<>>
    /\ futures = <<>>
    /\ fi = 0
    /\ bfs_pc = "idle"
    /\ level = 0

UFIdle ==
    /\ df_pairs = <<>>
    /\ parent = <<>>
    /\ root_to_id = <<>>
    /\ counter = 0
    /\ result = <<>>
    /\ uf_pc = "idle"
    /\ uf_i = 0

\* SumMatchWindow.__init__ and _init_ui (ui_summatch_window.py, lines 171-192,
\* 496, 537-554): no file, no thread, no worker (0), an empty result table
\* (0), the tolerance field holding "0.1".  nonstr_labels tells that the
\* frame in df has a column label that is not a str, which addItem of
\* line 634 or 644 rejects with TypeError.  A text is the sequence of its
\* characters.  The main thread is in its event loop, no handler is in
\* progress and no signal of a worker waits to be delivered.
WindowFresh ==
    [df |-> None, originalColumns |-> 0, nonstr_labels |-> FALSE,
     selected |-> 0, amount_col |-> "",
     edit_target |-> <<>>, edit_tol |-> <<"0", ".", "1">>,
     thread |-> None, worker |-> 0, result_table |-> 0, candidate_df |-> 0,
     btn_solve |-> TRUE, btn_stop |-> FALSE, btn_export |-> FALSE,
     exported |-> <<>>,
     created |-> 0, cancels |-> 0, dialog |-> "",
     pc |-> "idle", handler |-> "", closed |-> FALSE,
     search |-> "", pending |-> <<>>]

\* no ReconWorker is running
ReconIdle ==
    [clusters |-> <<>>, pc |-> "idle", k |-> 0, stop |-> FALSE,
     tol_float |-> TRUE, recon_group |-> <<>>, global_group_counter |-> 0,
     progress |-> <<>>, searched |-> <<>>, out |-> None]

\* no generator has been called
GenIdle == [pc |-> "idle", col |-> 0, mask |-> {}, original |-> <<>>, new |-> <<>>]

UIIdle ==
    /\ window = WindowFresh
    /\ recon = ReconIdle
    /\ gen_call = GenIdle

Init ==
    /\ df \in Tables
    /\ candidate_cols = AllCols
    /\ target \in Targets
    /\ tol_value \in Tolerances
    /\ static_ordering \in BOOLEAN
    /\ subset_mode \in {"Original Mode", "New Mode"}
    /\ df = ThreeShapeTable => (~static_ordering /\ subset_mode = "Original Mode")
    /\ worker_cancel = FALSE
    /\ worker_engine = None
    /\ run_pc = "start"
    /\ cancel_pc = "idle"
    /\ cancel_calls = 0
    /\ finished_out = None
    /\ exc = None
    /\ EngineFresh
    /\ UFIdle
    /\ UIIdle

(***************************************************************************)
(* StandaloneSearchWorker.cancel, called from the main thread.             *)
(***************************************************************************)
\* line 596
CancelCall ==
    /\ cancel_pc = "idle"
    /\ cancel_calls < MaxCancelCalls
    /\ cancel_calls' = cancel_calls + 1
    /\ worker_cancel' = TRUE
    /\ cancel_pc' = "called"
    /\ UNCHANGED <<workerVars, worker_engine, run_pc, finished_out, exc, dataVars,
                   regVars, bfsVars, ufVars, uiVars, cancel_search, memoization_cache>>

\* lines 597-599
CancelPropagate ==
    /\ cancel_pc = "called"
    /\ cancel_search' = IF worker_engine # None THEN TRUE ELSE cancel_search
    /\ cancel_pc' = "idle"
    /\ UNCHANGED <<workerVars, worker_cancel, worker_engine, run_pc, cancel_calls,
                   finished_out, exc, dataVars, regVars, bfsVars, ufVars, uiVars,
                   memoization_cache>>

(***************************************************************************)
(* StandaloneSearchWorker.run_search, on the worker's thread.              *)
(***************************************************************************)
\* lines 604-610: the engine is constructed, then stored in self._engine
RunConstruct ==
    /\ run_pc = "start"
    /\ run_pc' = "propagate"
    /\ tol' = tol_value
    /\ cancel_search' = FALSE
    /\ worker_engine' = "engine"
    /\ UNCHANGED <<workerVars, worker_cancel, cancel_pc, cancel_calls, finished_out, exc,
                   TARGET_SUM, value_array, int_cat_arrays, all_categories,
                   kept_indices, zero_rows_excluded, progress_callback,
                   regVars, bfsVars, ufVars, uiVars, memoization_cache>>

\* run_search without lines 612-613
PropagatesCancel_Skipped == FALSE

\* lines 612-613: the cancellation that arrived before the engine was stored
PropagatesCancel == worker_cancel

RunPropagate ==
    /\ run_pc = "propagate"
    /\ cancel_search' = IF PropagatesCancel THEN TRUE ELSE cancel_search
    /\ run_pc' = "prepare"
    /\ UNCHANGED <<workerVars, worker_cancel, worker_engine, cancel_pc, cancel_calls,
                   finished_out, exc, dataVars, regVars, bfsVars, ufVars, uiVars,
                   memoization_cache>>

\* lines 615-619: prepare_data (lines 136-157), then the progress signal
\* of the worker is set as the callback of the engine (line 616)
RunPrepare ==
    /\ run_pc = "prepare"
    /\ run_pc' = "search"
    /\ progress_callback' = "progress.emit"
    /\ TARGET_SUM' = target
    /\ tol' = tol
    /\ zero_rows_excluded' = ZeroRowsExcluded(df)
    /\ kept_indices' = KeptIndices(df)
    /\ all_categories' = AllCategories(df, candidate_cols)
    /\ int_cat_arrays' = IntCatArrays(df, candidate_cols)
    /\ value_array' = ValueArray(df)
    /\ UNCHANGED <<workerVars, worker_cancel, worker_engine, cancel_pc, cancel_calls,
                   finished_out, exc, regVars, bfsVars, ufVars, uiVars, cancel_search,
                   memoization_cache>>

(***************************************************************************)
(* CandidateRuleEngine.search and parallel_bfs_search_rule_dynamic.        *)
(* A task is a future of the level's executor running process_state:       *)
(*   st = "queued"    submitted, process_state has not read the flag of    *)
(*                    line 293 yet                                         *)
(*        "running"   past line 293, before the memo_lock of line 304      *)
(*        "register"  about to register the state itself (dup or leaf)     *)
(*        "gen"       at line 353 for the triple gen[gi], flag not read    *)
(*        "body"      past line 353, in lines 355-362 for the triple       *)
(*        "done"      returned res                                         *)
(*        "raised"    left by the exception exc, which the future holds    *)
(* ret is what the task's last call of register_solution returned.         *)
(* futures holds the tasks of the level in progress after those of the     *)
(* levels before it; fi is the position in futures of the future the       *)
(* driver's loop of line 374 is at.  The driver is at                      *)
(*   bfs_pc = "loop"      the test of line 369                             *)
(*            "submit"    lines 370-373                                    *)
(*            "collect"   line 375 for futures[fi]                         *)
(*            "result"    fut.result() of line 377 for futures[fi]         *)
(*            "shutdown"  the end of the with block of line 371            *)
(*            "done"      search() has returned                            *)
(*            "raised"    an exception has left search()                   *)
(***************************************************************************)
\* line 371, ThreadPoolExecutor(): min(32, (os.cpu_count() or 1) + 4) threads
max_workers == IF CpuCount + 4 < 32 THEN CpuCount + 4 ELSE 32

NewTask(state, lv) ==
    [state |-> state, level |-> lv, st |-> "queued", col |-> 0, gen |-> <<>>,
     gi |-> 0, next_states |-> <<>>, res |-> <<>>, ret |-> None, exc |-> None]

Returned(task, res, ret) ==
    [task EXCEPT !.st = "done", !.col = 0, !.gen = <<>>, !.gi = 0,
                 !.next_states = <<>>, !.res = res, !.ret = ret]

\* a task whose call of process_state raised: the future holds the exception
Raised(task, e) ==
    [task EXCEPT !.st = "raised", !.col = 0, !.gen = <<>>, !.gi = 0,
                 !.next_states = <<>>, !.res = <<>>, !.ret = None, !.exc = e]

\* a task whose result has been taken: what stays is that it ran, and when
Archived(task) ==
    IF task.st = "done"
    THEN [task EXCEPT !.state = State(<<>>, {}), !.res = <<>>, !.ret = None]
    ELSE task

Active(tasks) ==
    {i \in DOMAIN tasks : tasks[i].st \in {"running", "register", "gen", "body"}}

\* the tasks submitted before task i that have not returned: each of them
\* is in the queue before i or holds a thread of the pool
Unfinished(tasks, i) ==
    {j \in 1..(i - 1) : tasks[j].st \notin {"done", "raised"}}

\* lines 384-389 and 366-368
SearchStart ==
    /\ run_pc = "search"
    /\ candidate_rule_results' = <<>>
    /\ memoization_cache' = {}
    /\ solution_mask_map' = EmptyMap
    /\ solution_counter' = 0
    /\ current_level' = <<State(<<>>, AllRows)>>
    /\ bfs_pc' = "loop"
    /\ run_pc' = "searching"
    /\ UNCHANGED <<workerVars, worker_cancel, worker_engine, cancel_pc, cancel_calls,
                   finished_out, exc, dataVars, progress_msgs, next_level, futures,
                   fi, level, ufVars, uiVars, cancel_search>>

\* the while loop without its test of the cancel flag
LoopContinues_IgnoringCancel == current_level # <<>>

\* line 369: the condition of the while loop
LoopContinues == current_level # <<>> /\ ~cancel_search

\* line 369: the test of the while loop passes, a level starts
LoopEnter ==
    /\ bfs_pc = "loop"
    /\ LoopContinues
    /\ level' = level + 1
    /\ bfs_pc' = "submit"
    /\ UNCHANGED <<workerVars, threadVars, dataVars, regVars, current_level,
                   next_level, futures, fi, ufVars, uiVars, cancel_search,
                   memoization_cache>>

\* lines 370-373: every state of the level is submitted to a new executor
Submit ==
    /\ bfs_pc = "submit"
    /\ next_level' = <<>>
    /\ futures' = futures \o [i \in DOMAIN current_level |->
                                NewTask(current_level[i], level)]
    /\ fi' = Len(futures) + 1
    /\ bfs_pc' = "collect"
    /\ UNCHANGED <<workerVars, threadVars, dataVars, regVars, current_level,
                   level, ufVars, uiVars, cancel_search, memoization_cache>>

\* line 369, the loop ends: search() returns
LoopExit ==
    /\ bfs_pc = "loop"
    /\ ~LoopContinues
    /\ bfs_pc' = "done"
    /\ UNCHANGED <<workerVars, threadVars, dataVars, regVars, current_level,
                   next_level, futures, fi, level, ufVars, uiVars, cancel_search,
                   memoization_cache>>

\* line 371: leaving the with block shuts the executor down and waits for
\* every task submitted to it
ExecutorDrained == \A i \in DOMAIN futures : futures[i].st \in {"done", "raised"}

\* line 375: the flag is read before the result of a future is asked for
CollectTest ==
    /\ bfs_pc = "collect"
    /\ bfs_pc' = IF cancel_search THEN "shutdown" ELSE "result"
    /\ UNCHANGED <<workerVars, threadVars, dataVars, regVars, current_level,
                   next_level, futures, fi, level, ufVars, uiVars, cancel_search,
                   memoization_cache>>

\* lines 377-379: fut.result() returns when the task has returned, its
\* children are appended; after the last future the loop of line 374 ends
CollectResult ==
    /\ bfs_pc = "result"
    /\ futures[fi].st = "done"
    /\ next_level' = next_level \o futures[fi].res
    /\ fi' = fi + 1
    /\ bfs_pc' = IF fi = Len(futures) THEN "shutdown" ELSE "collect"
    /\ UNCHANGED <<workerVars, threadVars, dataVars, regVars, current_level,
                   futures, level, ufVars, uiVars, cancel_search,
                   memoization_cache>>

\* a driver that goes on to the next level without waiting, neither for
\* the result of the future it is at nor for the executor
LevelEnd_NoWait ==
    /\ bfs_pc \in {"result", "shutdown"}
    /\ current_level' = SortByRuleKey(next_level)
    /\ next_level' = SortByRuleKey(next_level)
    /\ futures' = [i \in DOMAIN futures |-> Archived(futures[i])]
    /\ fi' = 0
    /\ bfs_pc' = "loop"
    /\ UNCHANGED <<workerVars, threadVars, dataVars, regVars, level, ufVars, uiVars,
                   cancel_search, memoization_cache>>

\* lines 371 and 380-381: leaving the with block waits for every task, then
\* the children are sorted and become the current level (next_level and
\* current_level are one list)
LevelEnd ==
    /\ bfs_pc = "shutdown"
    /\ ExecutorDrained
    /\ current_level' = SortByRuleKey(next_level)
    /\ next_level' = SortByRuleKey(next_level)
    /\ futures' = [i \in DOMAIN futures |-> Archived(futures[i])]
    /\ fi' = 0
    /\ bfs_pc' = "loop"
    /\ UNCHANGED <<workerVars, threadVars, dataVars, regVars, level, ufVars, uiVars,
                   cancel_search, memoization_cache>>

\* line 377 when fut.result() re-raises the exception of a task: the
\* exception leaves the with block, which waits for every task, and then
\* search()
LevelRaise ==
    /\ bfs_pc = "result"
    /\ futures[fi].st = "raised"
    /\ ExecutorDrained
    /\ bfs_pc' = "raised"
    /\ exc' = futures[fi].exc
    /\ UNCHANGED <<workerVars, worker_cancel, worker_engine, run_pc, cancel_pc,
                   cancel_calls, finished_out, dataVars, regVars, current_level,
                   next_level, futures, fi, level, ufVars, uiVars, cancel_search,
                   memoization_cache>>

\* a thread of the pool has taken the task and process_state reads the
\* flag (line 293).  The queue is first in, first out and the pool has
\* max_workers threads, so the task is in a thread when fewer than
\* max_workers of the tasks submitted before it have not returned
TaskDequeue(i) ==
    /\ futures[i].st = "queued"
    /\ Cardinality(Unfinished(futures, i)) < max_workers
    /\ futures' = [futures EXCEPT ![i] =
                      IF cancel_search THEN Returned(@, <<>>, None)
                      ELSE [@ EXCEPT !.st = "running"]]
    /\ UNCHANGED <<workerVars, threadVars, dataVars, regVars, current_level,
                   next_level, fi, bfs_pc, level, ufVars, uiVars, cancel_search,
                   memoization_cache>>

\* lines 296-349: the memoization check under memo_lock and what follows it
\* up to the loop over the generator
TaskBegin(i) ==
    /\ futures[i].st = "running"
    /\ LET b == ProcessBegin(futures[i].state, memoization_cache)
       IN  /\ memoization_cache' = b.memo
           /\ futures' = [futures EXCEPT ![i] =
                 IF b.st = "done" THEN Returned(@, <<>>, None)
                 ELSE [@ EXCEPT !.st = b.st, !.col = b.col, !.gen = b.gen,
                                !.gi = IF b.st = "gen" THEN 1 ELSE 0]]
    /\ UNCHANGED <<workerVars, threadVars, dataVars, regVars, current_level,
                   next_level, fi, bfs_pc, level, ufVars, uiVars, cancel_search>>

SetRegistry(reg) ==
    /\ candidate_rule_results' = reg.results
    /\ solution_mask_map' = reg.map
    /\ solution_counter' = reg.counter
    /\ progress_msgs' = reg.msgs

\* line 273, _amount_decimal_places (lines 100-104): on an infinite
\* tolerance math.floor(math.log10(self.tol)) raises OverflowError, and
\* register_solution is left before it takes memo_lock
amount_decimal_places_Raises == tol = Infinity

\* lines 313-317 and 324-328
TaskRegister(i) ==
    /\ futures[i].st = "register"
    /\ ~amount_decimal_places_Raises
    /\ LET r == ProcessRegister(futures[i].state, Registry)
       IN  /\ SetRegistry(r.reg)
           /\ futures' = [futures EXCEPT ![i] = Returned(@, <<>>, RetStr(r.ret))]
    /\ UNCHANGED <<workerVars, threadVars, dataVars, current_level, next_level,
                   fi, bfs_pc, level, ufVars, uiVars, cancel_search, memoization_cache>>

\* lines 352-354: the flag is read for the next triple of the generator
TaskLoopTest(i) ==
    /\ futures[i].st = "gen"
    /\ futures' = [futures EXCEPT ![i] =
                      IF cancel_search THEN Returned(@, <<>>, @.ret)
                      ELSE [@ EXCEPT !.st = "body"]]
    /\ UNCHANGED <<workerVars, threadVars, dataVars, regVars, current_level,
                   next_level, fi, bfs_pc, level, ufVars, uiVars, cancel_search,
                   memoization_cache>>

\* lines 355-363: the body of the loop for one triple; after the last
\* triple the task returns its children
TaskYield(i) ==
    /\ futures[i].st = "body"
    /\ ~(/\ amount_decimal_places_Raises
          /\ check_pruning(futures[i].gen[futures[i].gi].mask,
                           futures[i].gen[futures[i].gi].sum)
          /\ Matches(futures[i].gen[futures[i].gi].sum))
    /\ LET t  == futures[i]
           y  == ProcessYield(t.state.rule, t.col, t.gen[t.gi], Registry)
           ns == t.next_states \o y.child
           rt == IF y.ret = None THEN t.ret ELSE y.ret
       IN  /\ SetRegistry(y.reg)
           /\ futures' = [futures EXCEPT ![i] =
                 IF t.gi = Len(t.gen) THEN Returned(@, ns, rt)
                 ELSE [@ EXCEPT !.st = "gen", !.gi = t.gi + 1,
                                !.next_states = ns, !.ret = rt]]
    /\ UNCHANGED <<workerVars, threadVars, dataVars, current_level, next_level,
                   fi, bfs_pc, level, ufVars, uiVars, cancel_search, memoization_cache>>

\* lines 315, 326 and 360 when line 273 raises: the exception leaves
\* register_solution and process_state, the registry is as it was
TaskOverflow(i) ==
    /\ futures[i].st \in {"register", "body"}
    /\ amount_decimal_places_Raises
    /\ futures[i].st = "body" =>
          /\ check_pruning(futures[i].gen[futures[i].gi].mask,
                           futures[i].gen[futures[i].gi].sum)
          /\ Matches(futures[i].gen[futures[i].gi].sum)
    /\ futures' = [futures EXCEPT ![i] = Raised(@, "OverflowError")]
    /\ UNCHANGED <<workerVars, threadVars, dataVars, regVars, current_level,
                   next_level, fi, bfs_pc, level, ufVars, uiVars, cancel_search,
                   memoization_cache>>

TaskErrors == Cardinality({i \in DOMAIN futures : futures[i].st = "raised"})

\* what the progress sink raises when it raises: a ValueError, which
\* run_search catches at line 663, or another Exception, caught at line 665
SinkErrors == {"ValueError", "RuntimeError"}

\* lines 355-361, the progress callback raising at line 286: the exception
\* leaves register_solution and process_state.  (A state that registers itself at
\* lines 313-316 or 324-327 was registered when its parent yielded it, so
\* with grouping columns the callback is reached from line 360 only.)
TaskYieldFail(i) ==
    /\ futures[i].st = "body"
    /\ progress_callback # None
    /\ ~amount_decimal_places_Raises
    /\ TaskErrors < MaxTaskErrors
    /\ LET t        == futures[i]
           y        == t.gen[t.gi]
           new_rule == Append(t.state.rule, [col |-> t.col, cats |-> y.subset])
           complete == complete_rule(new_rule, y.mask)
       IN  /\ check_pruning(y.mask, y.sum)
           /\ Matches(y.sum)
           /\ ~AlreadyRegistered(Registry, MaskKey(FullMask(complete)))
           /\ SetRegistry(register_solution_raising(Registry, complete))
    /\ \E e \in SinkErrors : futures' = [futures EXCEPT ![i] = Raised(@, e)]
    /\ UNCHANGED <<workerVars, threadVars, dataVars, current_level, next_level,
                   fi, bfs_pc, level, ufVars, uiVars, cancel_search, memoization_cache>>

\* the rows of a selection taken as positions of the original table
OriginalIndices_PostFilter(sel) == sel

\* lines 639-641: engine.kept_indices[fi]
OriginalIndices(sel) == {kept_indices[j] : j \in sel}

\* lines 643-650: the label of a row that solution idx selects; a label is
\* the sequence of the ids that "_".join writes, "" the empty sequence
AddLabel(ex, idx) ==
    IF ex # <<>> THEN SortedSeq(Range(ex) \cup {idx}) ELSE <<idx>>

\* lines 632-650: the loop over enumerate(rules, 1), from idx on
RECURSIVE SolColFrom(_, _, _)
SolColFrom(rules, idx, sol_col) ==
    IF idx > Len(rules) THEN sol_col
    ELSE LET oi == OriginalIndices(FullMask(rules[idx].rule))
         IN  SolColFrom(rules, idx + 1,
                [i \in DOMAIN sol_col |->
                    IF i \in oi THEN AddLabel(sol_col[i], idx) ELSE sol_col[i]])

\* lines 628-653: the solution_set label of every original row
SolCol(rules) == SolColFrom(rules, 1, [r \in DOMAIN df |-> <<>>])

\* lines 625-661
RunFinish ==
    /\ run_pc = "searching"
    /\ bfs_pc = "done"
    /\ run_pc' = "finished"
    /\ LET rules == get_candidate_results(candidate_rule_results)
       IN  finished_out' =
             IF rules # <<>>
             THEN [found |-> Len(rules), solution_set |-> SolCol(rules),
                   msg |-> "Solutions found"]
             ELSE [found |-> 0, solution_set |-> <<>>,
                   msg |-> "No solution was found"]
    /\ UNCHANGED <<workerVars, worker_cancel, worker_engine, cancel_pc, cancel_calls,
                   exc, dataVars, regVars, bfsVars, ufVars, uiVars, cancel_search,
                   memoization_cache>>

\* lines 615-619 when the progress sink raises on the note of line 617:
\* prepare_data has run, the exception is on its way to the handlers of
\* run_search and search() never starts
RunNoteFail ==
    /\ run_pc = "prepare"
    /\ ZeroRowsExcluded(df) > 0
    /\ MaxTaskErrors > 0
    /\ run_pc' = "note"
    /\ progress_callback' = "progress.emit"
    /\ \E e \in SinkErrors : exc' = e
    /\ TARGET_SUM' = target
    /\ tol' = tol
    /\ zero_rows_excluded' = ZeroRowsExcluded(df)
    /\ kept_indices' = KeptIndices(df)
    /\ all_categories' = AllCategories(df, candidate_cols)
    /\ int_cat_arrays' = IntCatArrays(df, candidate_cols)
    /\ value_array' = ValueArray(df)
    /\ UNCHANGED <<workerVars, worker_cancel, worker_engine, cancel_pc, cancel_calls,
                   finished_out, regVars, bfsVars, ufVars, uiVars, cancel_search,
                   memoization_cache>>

\* lines 663-664 and 665-668: the message of the handler that catches e
ErrorMessage(e) ==
    IF e = "ValueError" THEN "Input error" ELSE "An unexpected error occurred"

\* lines 663-668: the exception that left search(), or the emit of line
\* 617, is caught by the handler of its type; finished is emitted with
\* the handler's message and no table
RunError ==
    /\ run_pc \in {"note", "searching"}
    /\ exc # None
    /\ run_pc' = "finished"
    /\ finished_out' = [found |-> 0, solution_set |-> <<>>, msg |-> ErrorMessage(exc)]
    /\ UNCHANGED <<workerVars, worker_cancel, worker_engine, cancel_pc, cancel_calls,
                   exc, dataVars, regVars, bfsVars, ufVars, uiVars, cancel_search,
                   memoization_cache>>

Dequeue == \E i \in DOMAIN futures : TaskDequeue(i)

Begin == \E i \in DOMAIN futures : TaskBegin(i)

Register == \E i \in DOMAIN futures : TaskRegister(i)

LoopTest == \E i \in DOMAIN futures : TaskLoopTest(i)

Yield == \E i \in DOMAIN futures : TaskYield(i)

Next ==
    \/ CancelCall
    \/ CancelPropagate
    \/ RunConstruct
    \/ RunPropagate
    \/ RunPrepare
    \/ SearchStart
    \/ LoopEnter
    \/ Submit
    \/ LoopExit
    \/ CollectTest
    \/ CollectResult
    \/ LevelEnd
    \/ Dequeue
    \/ Begin
    \/ Register
    \/ LoopTest
    \/ Yield
    \/ RunFinish

Spec == Init /\ [][Next]_vars

(***************************************************************************)
(* The search when the progress callback can raise.                        *)
(***************************************************************************)
YieldFail == \E i \in DOMAIN futures : TaskYieldFail(i)

NextErr ==
    \/ CancelCall
    \/ CancelPropagate
    \/ RunConstruct
    \/ RunPropagate
    \/ RunPrepare
    \/ SearchStart
    \/ LoopEnter
    \/ Submit
    \/ LoopExit
    \/ CollectTest
    \/ CollectResult
    \/ LevelEnd
    \/ LevelRaise
    \/ Dequeue
    \/ Begin
    \/ Register
    \/ LoopTest
    \/ Yield
    \/ YieldFail
    \/ RunFinish
    \/ RunNoteFail
    \/ RunError

SpecErr == Init /\ [][NextErr]_vars

(***************************************************************************)
(* compute_clusters_from_pairs (lines 399-437).                            *)
(* An id is a Python value: a str or an int, the int written with its      *)
(* decimal digits.  Two ids are equal as Python values are: an int is      *)
(* never equal to a str.  A dict is the sequence of its items in insertion *)
(* order.                                                                  *)
(***************************************************************************)
StrId(text) == [ty |-> "str", text |-> text]

IntId(digits) == [ty |-> "int", text |-> digits]

\* str(uid)
Str(uid) == [ty |-> "str", text |-> uid.text]

Ids == {StrId("a"), StrId("b"), StrId("c"), StrId("1"), IntId("1"), IntId("2")}

PairTables ==
    UNION {[1..n -> [l : Ids, r : Ids]] : n \in 0..MaxPairs}

Has(dict, key) == \E i \in DOMAIN dict : dict[i].k = key

Get(dict, key) == dict[CHOOSE i \in DOMAIN dict : dict[i].k = key].v

Put(dict, key, val) ==
    IF Has(dict, key)
    THEN [i \in DOMAIN dict |->
            IF dict[i].k = key THEN [k |-> key, v |-> val] ELSE dict[i]]
    ELSE Append(dict, [k |-> key, v |-> val])

Keys(dict) == [i \in DOMAIN dict |-> dict[i].k]

\* lines 406-409: path halving
RECURSIVE FindLoop(_, _)
FindLoop(par, x) ==
    IF Get(par, x) = x THEN [parent |-> par, root |-> x]
    ELSE LET halved == Put(par, x, Get(par, Get(par, x)))
         IN  FindLoop(halved, Get(halved, x))

\* lines 403-409
find(par, x) ==
    FindLoop(IF Has(par, x) THEN par ELSE Put(par, x, x), x)

\* lines 411-414
union(par, a, b) ==
    LET fa == find(par, a)
        fb == find(fa.parent, b)
    IN  IF fa.root # fb.root THEN Put(fb.parent, fa.root, fb.root)
        ELSE fb.parent

\* line 421: df_pairs[uid_l].tolist() + df_pairs[uid_r].tolist()
IdColumns(pairs) ==
    [i \in DOMAIN pairs |-> pairs[i].l] \o [i \in DOMAIN pairs |-> pairs[i].r]

\* lines 421-423
RECURSIVE Seed(_, _, _)
Seed(par, uids, i) ==
    IF i > Len(uids) THEN par
    ELSE Seed(IF ~Has(par, Str(uids[i]))
              THEN Put(par, Str(uids[i]), Str(uids[i])) ELSE par,
              uids, i + 1)

\* a call of compute_clusters_from_pairs: lines 401 and 416-419
InitUF ==
    /\ df = <<>>
    /\ candidate_cols = AllCols
    /\ target = 0
    /\ tol_value = 0
    /\ static_ordering = FALSE
    /\ subset_mode = "Original Mode"
    /\ worker_cancel = FALSE
    /\ worker_engine = None
    /\ run_pc = "idle"
    /\ cancel_pc = "idle"
    /\ cancel_calls = 0
    /\ finished_out = None
    /\ exc = None
    /\ EngineFresh
    /\ df_pairs \in PairTables
    /\ parent = <<>>
    /\ root_to_id = <<>>
    /\ counter = 0
    /\ result = <<>>
    /\ uf_pc = "seed"
    /\ uf_i = 0
    /\ UIIdle

engineVars == <<workerVars, threadVars, dataVars, regVars, bfsVars,
                cancel_search, memoization_cache, uiVars>>

\* lines 421-423
UFSeed ==
    /\ uf_pc = "seed"
    /\ parent' = Seed(parent, IdColumns(df_pairs), 1)
    /\ uf_pc' = "union"
    /\ uf_i' = 1
    /\ UNCHANGED <<engineVars, df_pairs, root_to_id, counter, result>>

\* lines 425-426: one row of the pair table
UFUnion ==
    /\ uf_pc = "union"
    /\ uf_i <= Len(df_pairs)
    /\ parent' = union(parent, Str(df_pairs[uf_i].l), Str(df_pairs[uf_i].r))
    /\ uf_i' = uf_i + 1
    /\ UNCHANGED <<engineVars, df_pairs, root_to_id, counter, result, uf_pc>>

\* lines 428-431: the unions are done, the keys of parent are listed
UFNumber ==
    /\ uf_pc = "union"
    /\ uf_i > Len(df_pairs)
    /\ root_to_id' = <<>>
    /\ counter' = 0
    /\ result' = <<>>
    /\ uf_pc' = "assign"
    /\ uf_i' = 1
    /\ UNCHANGED <<engineVars, df_pairs, parent>>

\* lines 431-436: one key of parent; find changes values of parent, never
\* its keys, so the keys listed at line 431 are Keys(parent)
UFAssign ==
    /\ uf_pc = "assign"
    /\ uf_i <= Len(parent)
    /\ LET uid  == Keys(parent)[uf_i]
           f    == find(parent, uid)
           new  == ~Has(root_to_id, f.root)
           ids  == IF new THEN Put(root_to_id, f.root, counter + 1)
                   ELSE root_to_id
       IN  /\ parent' = f.parent
           /\ counter' = IF new THEN counter + 1 ELSE counter
           /\ root_to_id' = ids
           /\ result' = Put(result, uid, Get(ids, f.root))
    /\ uf_i' = uf_i + 1
    /\ UNCHANGED <<engineVars, df_pairs, uf_pc>>

\* line 437
UFReturn ==
    /\ uf_pc = "assign"
    /\ uf_i > Len(parent)
    /\ uf_pc' = "done"
    /\ UNCHANGED <<engineVars, df_pairs, parent, root_to_id, counter, result, uf_i>>

NextUF ==
    \/ UFSeed
    \/ UFUnion
    \/ UFNumber
    \/ UFAssign
    \/ UFReturn

SpecUF == InitUF /\ [][NextUF]_vars

(***************************************************************************)
(* Definitions the properties are stated with.                             *)
(***************************************************************************)
ResultMask(i) == FullMask(candidate_rule_results[i].rule)

Fingerprints(reg) == DOMAIN reg.map

SearchReturned == bfs_pc = "done"

Uncancelled == ~cancel_search

\* a rule with one non-empty category subset for every grouping column
FullRules ==
    [Range(all_columns) -> UNION {SUBSET all_categories[c] \ {{}} : c \in Range(all_columns)}]

IsFullRule(f) == \A c \in Range(all_columns) : f[c] \subseteq all_categories[c]

RowsOfFullRule(f) ==
    {j \in AllRows : \A c \in Range(all_columns) : int_cat_arrays[c][j] \in f[c]}

\* the search with one task at a time, every level in its sorted order:
\* the interleaving in which each task returns before the next one starts
RECURSIVE SeqYields(_, _, _, _, _, _)
SeqYields(rule, col, gen, gi, reg, acc) ==
    IF gi > Len(gen) THEN [reg |-> reg, children |-> acc]
    ELSE LET y == ProcessYield(rule, col, gen[gi], reg)
         IN  SeqYields(rule, col, gen, gi + 1, y.reg, acc \o y.child)

SeqProcess(state, memo, reg) ==
    LET b == ProcessBegin(state, memo)
    IN  IF b.st = "register"
        THEN [memo |-> b.memo, reg |-> ProcessRegister(state, reg).reg,
              children |-> <<>>]
        ELSE IF b.st = "gen"
        THEN LET r == SeqYields(state.rule, b.col, b.gen, 1, reg, <<>>)
             IN  [memo |-> b.memo, reg |-> r.reg, children |-> r.children]
        ELSE [memo |-> b.memo, reg |-> reg, children |-> <<>>]

RECURSIVE SeqTasks(_, _, _, _, _)
\* the tasks after task k, which returned r
SeqTasksAfter(states, k, r, acc) ==
    SeqTasks(states, k + 1, r.memo, r.reg, acc \o r.children)

SeqTasks(states, k, memo, reg, acc) ==
    IF k > Len(states) THEN [memo |-> memo, reg |-> reg, children |-> acc]
    ELSE SeqTasksAfter(states, k, SeqProcess(states[k], memo, reg), acc)

RECURSIVE SeqBFS(_, _, _)
\* the levels after a level that ended with r
SeqBFSAfter(r) == SeqBFS(SortByRuleKey(r.children), r.memo, r.reg)

SeqBFS(current, memo, reg) ==
    IF current = <<>> THEN reg
    ELSE SeqBFSAfter(SeqTasks(current, 1, memo, reg, <<>>))

SequentialSearch == SeqBFS(<<State(<<>>, AllRows)>>, {}, EmptyRegistry)

(***************************************************************************)
(* The subset generators called on their own.  A CandidateRuleEngine is    *)
(* constructed on a table, prepare_data runs, and both generators are      *)
(* called for one column and one parent mask, with avail the categories of *)
(* the column under the mask, as process_state computes it (lines 330-339).*)
(***************************************************************************)
GenRows == 3        \* rows of the table the generators are called on
GenCatVal == 2      \* its raw category values are 0..GenCatVal

GenTolerances == {0, 1}

GenRowTypes == [amt : RawAmounts, cat : [1..MaxCols -> 0..GenCatVal]]

GenTables ==
    {d \in [0..(GenRows - 1) -> GenRowTypes] :
        \A i \in 0..(GenRows - 2) : RowLeq(d[i], d[i + 1])}

InitGen ==
    /\ df \in GenTables
    /\ candidate_cols = AllCols
    /\ target \in Targets
    /\ tol_value \in GenTolerances
    /\ static_ordering = FALSE
    /\ subset_mode = "Original Mode"
    /\ worker_cancel = FALSE
    /\ worker_engine = None
    /\ run_pc = "idle"
    /\ cancel_pc = "idle"
    /\ cancel_calls = 0
    /\ finished_out = None
    /\ exc = None
    /\ EngineFresh
    /\ UFIdle
    /\ window = WindowFresh
    /\ recon = ReconIdle
    /\ gen_call = [GenIdle EXCEPT !.pc = "constructed"]

notGenVars == <<workerVars, threadVars, regVars, bfsVars, ufVars, cancel_search,
                memoization_cache, window, recon>>

\* prepare_data (lines 136-157)
GenPrepare ==
    /\ gen_call.pc = "constructed"
    /\ progress_callback' = None
    /\ TARGET_SUM' = target
    /\ tol' = tol_value
    /\ zero_rows_excluded' = ZeroRowsExcluded(df)
    /\ kept_indices' = KeptIndices(df)
    /\ all_categories' = AllCategories(df, candidate_cols)
    /\ int_cat_arrays' = IntCatArrays(df, candidate_cols)
    /\ value_array' = ValueArray(df)
    /\ gen_call' = [gen_call EXCEPT !.pc = "prepared"]
    /\ UNCHANGED notGenVars

\* list(generate_candidate_subsets_pruned_original(col, avail, mask))
GenCallOriginal ==
    /\ gen_call.pc = "prepared"
    /\ \E col \in Range(all_columns), mask \in SUBSET AllRows \ {{}} :
          gen_call' = [pc |-> "original", col |-> col, mask |-> mask,
                       original |-> generate_candidate_subsets_pruned_original(
                                       col, Avail(col, mask), mask),
                       new |-> <<>>]
    /\ UNCHANGED <<notGenVars, dataVars>>

\* list(generate_candidate_subsets_pruned_new(col, avail, mask)), same call
GenCallNew ==
    /\ gen_call.pc = "original"
    /\ gen_call' = [gen_call EXCEPT
                      !.pc = "new",
                      !.new = generate_candidate_subsets_pruned_new(
                                 gen_call.col, Avail(gen_call.col, gen_call.mask),
                                 gen_call.mask)]
    /\ UNCHANGED <<notGenVars, dataVars>>

NextGen ==
    \/ GenPrepare
    \/ GenCallOriginal
    \/ GenCallNew

SpecGen == InitGen /\ [][NextGen]_vars

(***************************************************************************)
(* ReconWorker.run, the loop over the clusters (lines 501-557).  A cluster *)
(* is its rows and whether its amounts are numeric: astype(float) of       *)
(* prepare_data (line 140) raises ValueError on a cluster that holds an    *)
(* amount that is not a number.  The engine of a cluster is the            *)
(* CandidateRuleEngine above (target 0, no progress callback); its search  *)
(* is the parallel BFS above, run on the worker's thread and the threads   *)
(* of the level's pool.  A progress message is the record of its kind and  *)
(* numbers.  tol_value is the worker's recon_tol when float() accepts it   *)
(* and tol_float says whether it does: the constructor of the engine       *)
(* raises at line 75 on a recon_tol that is no number, and the search      *)
(* raises at line 273 on an infinite one.                                  *)
(***************************************************************************)
\* what ReconWorker is given as recon_tol, when it is a number
ReconTols == Tolerances \cup {Infinity}

ClusterTables ==
    UNION {{d \in [0..(n - 1) -> RowTypes] :
              \A i \in 0..(n - 2) : RowLeq(d[i], d[i + 1])} :
           n \in 1..MaxClusterRows}

\* the clusters: every table of MaxClusterRows rows with numeric amounts,
\* one cluster of a single row (passed over at line 509), one cluster
\* whose amounts are not numbers, and one cluster of three rows with three
\* category tuples, where what the search registers depends on the order
\* in which the pool runs the tasks
OneRowCluster == [rows |-> [i \in 0..0 |-> FirstRow], numeric |-> TRUE]

TextCluster == [rows |-> [i \in 0..1 |-> FirstRow], numeric |-> FALSE]

ThreeShapeCluster == [rows |-> ThreeShapeTable, numeric |-> TRUE]

Clusters ==
    {[rows |-> d, numeric |-> TRUE] :
        d \in {t \in ClusterTables : ArrLen(t) = MaxClusterRows}}
      \cup {OneRowCluster, TextCluster}

\* a cluster that follows another one has -1 in categories (0, ..., 0) as
\* its first row and no zero-amount row
LaterClusters ==
    {c \in Clusters :
        c.rows[0] = FirstRow /\ \A i \in DOMAIN c.rows : c.rows[i].amt # 0}

\* the runs: one cluster, or MaxClusters clusters
ClusterLists ==
    {<<c>> : c \in Clusters \cup {ThreeShapeCluster}}
      \cup {cl \in [1..MaxClusters -> Clusters] :
               \A k \in 2..MaxClusters : cl[k] \in LaterClusters}

\* lines 501-503, the clusters being those of groupby("cluster_id")
InitRecon ==
    /\ df = <<>>
    /\ candidate_cols = AllCols
    /\ target = 0
    /\ tol_value \in ReconTols
    /\ static_ordering = FALSE
    /\ subset_mode = "Original Mode"
    /\ worker_cancel = FALSE
    /\ worker_engine = None
    /\ run_pc = "idle"
    /\ cancel_pc = "idle"
    /\ cancel_calls = 0
    /\ finished_out = None
    /\ exc = None
    /\ EngineFresh
    /\ UFIdle
    /\ window = WindowFresh
    /\ gen_call = GenIdle
    /\ \E cl \in ClusterLists, isfloat \in BOOLEAN :
          /\ ~isfloat => tol_value = 0
          /\ recon = [clusters |-> cl, pc |-> "loop", k |-> 1, stop |-> FALSE,
                      tol_float |-> isfloat,
                      recon_group |-> [k \in DOMAIN cl |->
                                         [r \in DOMAIN cl[k].rows |-> <<>>]],
                      global_group_counter |-> 0,
                      progress |-> <<>>, searched |-> <<>>, out |-> None]

notReconVars == <<workerVars, threadVars, dataVars, regVars, bfsVars, ufVars,
                  cancel_search, memoization_cache, window, gen_call>>

\* lines 462-463
ReconStop ==
    /\ recon.pc \in {"loop", "try", "search", "searching", "attribute"}
    /\ ~recon.stop
    /\ recon' = [recon EXCEPT !.stop = TRUE]
    /\ UNCHANGED notReconVars

\* a loop that does not read _stop
ReconLoop_IgnoresStop ==
    /\ recon.pc = "loop"
    /\ recon.k <= Len(recon.clusters)
    /\ recon' = IF ArrLen(recon.clusters[recon.k].rows) < 2
                THEN [recon EXCEPT !.k = @ + 1]
                ELSE [recon EXCEPT !.pc = "try"]
    /\ UNCHANGED notReconVars

\* lines 505-510: the next cluster, a cluster of one row is passed over
ReconLoop ==
    /\ recon.pc = "loop"
    /\ recon.k <= Len(recon.clusters)
    /\ ~recon.stop
    /\ recon' = IF ArrLen(recon.clusters[recon.k].rows) < 2
                THEN [recon EXCEPT !.k = @ + 1]
                ELSE [recon EXCEPT !.pc = "try"]
    /\ UNCHANGED notReconVars

\* the loop without the try of line 511: the exception reaches line 559
OnClusterError_Propagates(r, cid) ==
    [r EXCEPT !.pc = "done", !.out = "error"]

\* lines 518-520: the exception is reported and the loop continues
OnClusterError(r, cid) ==
    [r EXCEPT !.progress = Append(@, [kind |-> "warning", cid |-> cid, n |-> 0]),
              !.k = @ + 1, !.pc = "loop"]

\* lines 512-514 when float(tol_value) of line 75 raises: no engine is
\* built for the cluster
ReconBuildFail ==
    /\ recon.pc = "try"
    /\ ~recon.tol_float
    /\ recon' = OnClusterError(recon, recon.k)
    /\ UNCHANGED notReconVars

\* lines 512-515: the engine of the cluster is built (lines 69-96) and
\* prepare_data runs on it; on a cluster whose amounts are not numbers
\* astype(float) of line 140 raises, after lines 137-138
ReconPrepare ==
    /\ recon.pc = "try"
    /\ recon.tol_float
    /\ LET sub == recon.clusters[recon.k]
       IN  IF ~sub.numeric
           THEN /\ recon' = OnClusterError(recon, recon.k)
                /\ zero_rows_excluded' = 0
                /\ kept_indices' = None
                /\ all_categories' = EmptyDict
                /\ int_cat_arrays' = EmptyDict
                /\ value_array' = None
           ELSE /\ recon' = [recon EXCEPT !.pc = "search"]
                /\ zero_rows_excluded' = ZeroRowsExcluded(sub.rows)
                /\ kept_indices' = KeptIndices(sub.rows)
                /\ all_categories' = AllCategories(sub.rows, candidate_cols)
                /\ int_cat_arrays' = IntCatArrays(sub.rows, candidate_cols)
                /\ value_array' = ValueArray(sub.rows)
    /\ TARGET_SUM' = 0
    /\ tol' = tol_value
    /\ progress_callback' = None
    /\ cancel_search' = FALSE
    /\ candidate_rule_results' = <<>>
    /\ solution_mask_map' = EmptyMap
    /\ solution_counter' = 0
    /\ progress_msgs' = <<>>
    /\ memoization_cache' = {}
    /\ current_level' = <<>>
    /\ next_level' = <<>>
    /\ futures' = <<>>
    /\ fi' = 0
    /\ bfs_pc' = "idle"
    /\ level' = 0
    /\ UNCHANGED <<workerVars, threadVars, ufVars, window, gen_call>>

\* line 516, engine.search() is entered: lines 384-389 and 366-368; no
\* progress callback is set on this engine
ReconSearchStart ==
    /\ recon.pc = "search"
    /\ recon' = [recon EXCEPT !.pc = "searching"]
    /\ candidate_rule_results' = <<>>
    /\ memoization_cache' = {}
    /\ solution_mask_map' = EmptyMap
    /\ solution_counter' = 0
    /\ current_level' = <<State(<<>>, AllRows)>>
    /\ bfs_pc' = "loop"
    /\ UNCHANGED <<workerVars, threadVars, dataVars, progress_msgs, next_level,
                   futures, fi, level, ufVars, cancel_search, window, gen_call>>

\* line 516, engine.search() has returned
ReconSearchEnd ==
    /\ recon.pc = "searching"
    /\ bfs_pc = "done"
    /\ recon' = [recon EXCEPT !.pc = "attribute",
                              !.searched = Append(@, recon.k)]
    /\ UNCHANGED notReconVars

\* lines 516 and 518-520: search() raised the exception of a task
ReconSearchRaise ==
    /\ recon.pc = "searching"
    /\ bfs_pc = "raised"
    /\ recon' = OnClusterError(recon, recon.k)
    /\ exc' = None
    /\ UNCHANGED <<workerVars, worker_cancel, worker_engine, run_pc, cancel_pc,
                   cancel_calls, finished_out, dataVars, regVars, bfsVars, ufVars,
                   cancel_search, memoization_cache, window, gen_call>>

\* lines 525-548: the loop over the rules, from idx on; counter is
\* global_group_counter, group the recon_group labels of the cluster's rows
RECURSIVE ReconLabels(_, _, _, _)
ReconLabels(rules, idx, cnt, group) ==
    IF idx > Len(rules) THEN [counter |-> cnt, group |-> group]
    ELSE LET local_idx == OriginalIndices(FullMask(rules[idx].rule))
         IN  ReconLabels(rules, idx + 1, cnt + 1,
                [pos \in DOMAIN group |->
                    IF pos \in local_idx THEN AddLabel(group[pos], cnt + 1)
                    ELSE group[pos]])

\* lines 517 and 522-551
ReconAttribute ==
    /\ recon.pc = "attribute"
    /\ LET rules == get_candidate_results(candidate_rule_results)
           lab   == ReconLabels(rules, 1, recon.global_group_counter,
                                recon.recon_group[recon.k])
       IN  recon' =
             IF rules = <<>>
             THEN [recon EXCEPT !.k = @ + 1, !.pc = "loop"]
             ELSE [recon EXCEPT
                     !.recon_group[recon.k] = lab.group,
                     !.global_group_counter = lab.counter,
                     !.progress = Append(@, [kind |-> "found", cid |-> recon.k,
                                             n |-> Len(rules)]),
                     !.k = @ + 1, !.pc = "loop"]
    /\ UNCHANGED notReconVars

\* lines 506-507 and 553-557: the loop has ended or was stopped
ReconFinish ==
    /\ recon.pc = "loop"
    /\ recon.k > Len(recon.clusters) \/ recon.stop
    /\ recon' = [recon EXCEPT
                   !.progress = Append(@, [kind |-> "complete", cid |-> 0,
                                           n |-> recon.global_group_counter]),
                   !.out = "finished", !.pc = "done"]
    /\ UNCHANGED notReconVars

Overflow == \E i \in DOMAIN futures : TaskOverflow(i)

NextRecon ==
    \/ ReconStop
    \/ ReconLoop
    \/ ReconBuildFail
    \/ ReconPrepare
    \/ ReconSearchStart
    \/ LoopEnter
    \/ Submit
    \/ LoopExit
    \/ CollectTest
    \/ CollectResult
    \/ LevelEnd
    \/ LevelRaise
    \/ Dequeue
    \/ Begin
    \/ Register
    \/ LoopTest
    \/ Yield
    \/ Overflow
    \/ ReconSearchEnd
    \/ ReconSearchRaise
    \/ ReconAttribute
    \/ ReconFinish

SpecRecon == InitRecon /\ [][NextRecon]_vars

(***************************************************************************)
(* SumMatchWindow (ui_summatch_window.py): the fields of the window that   *)
(* its handlers read and write.  A text is the sequence of its             *)
(* characters.  originalColumns is the number of columns of the file       *)
(* loaded, 1 for one or more, and selected the number of items of          *)
(* selected_list.  amount_col is what combo_amount.currentData() is for    *)
(* the frame in df: "" for an empty combo, the sentinel, "amt" for a       *)
(* column astype(float) accepts, "txt" for one it rejects, "stale" for a   *)
(* name the frame does not have.  worker is 0 for None and n for the n-th  *)
(* worker created; result_table and candidate_df are 0 when empty and n    *)
(* when they hold the table of worker n; exported is <<>>, or <<n>> when   *)
(* the file written last holds the solution_set column of candidate_df n.  *)
(* thread is None, "running" (started, quit not yet                        *)
(* called), "quitting" (quit was called, the thread has not stopped yet),  *)
(* "terminating" (terminate was called) or "finished".  search is what     *)
(* run_search of the worker does on that thread: "running", or "returned"  *)
(* once it has emitted finished; "" without a thread.  The worker's        *)
(* signals reach the window through the event queue of the main thread:    *)
(* pending holds the finished signals emitted and not yet delivered, each  *)
(* with its worker and whether it carries a table.  The handlers run on    *)
(* the main thread one at a time: pc is "idle" in the event loop,          *)
(* "wait5000" and "wait2000" while the handler named by handler is blocked *)
(* in the calls of thread.wait of lines 787 and 789.  closed says that     *)
(* closeEvent has run.  dialog is the text of the message box the last     *)
(* handler showed.                                                         *)
(***************************************************************************)
Digits == {"0", "1", "5"}

\* what the user types in a field: nothing, blanks, numbers with and without
\* sign, point and blanks around, and texts that are no numbers
Texts ==
    {<<>>, <<" ">>, <<"1">>, <<" ", "1", " ">>, <<"1", ".", "5">>,
     <<"-", "1">>, <<"-", "0">>,
     <<"a">>, <<".">>, <<"1", ".", "5", ".">>}

\* str.strip()
RECURSIVE LStrip(_)
LStrip(t) == IF t # <<>> /\ Head(t) = " " THEN LStrip(Tail(t)) ELSE t

RECURSIVE RStrip(_)
RStrip(t) ==
    IF t # <<>> /\ t[Len(t)] = " " THEN RStrip(SubSeq(t, 1, Len(t) - 1)) ELSE t

Strip(t) == RStrip(LStrip(t))

Count(t, chars) == Cardinality({i \in DOMAIN t : t[i] \in chars})

\* float(text) does not raise ValueError: blanks around, an optional sign,
\* digits with at most one point
FloatOk(text) ==
    LET t    == Strip(text)
        body == IF t # <<>> /\ t[1] = "-" THEN Tail(t) ELSE t
    IN  /\ Count(body, Digits) >= 1
        /\ Count(body, {"."}) <= 1
        /\ Count(body, Digits \cup {"."}) = Len(body)

\* float(text) < 0, for a text float accepts
FloatNegative(text) ==
    LET t == Strip(text)
    IN  t # <<>> /\ t[1] = "-" /\ Count(t, Digits \ {"0"}) >= 1

NO_NUMERIC_COLUMNS_SENTINEL == "__NO_NUMERIC_COLUMNS__"

\* line 833: edit_tol.text().strip() or "0.1"
TolStr(w) == IF Strip(w.edit_tol) = <<>> THEN <<"0", ".", "1">> ELSE Strip(w.edit_tol)

\* lines 795-854: the message of the first validation that fails, "" if none
StartError(w) ==
    IF w.df = None THEN "Please load a file first."
    ELSE IF w.selected = 0 THEN "Please select at least one grouping column."
    ELSE IF w.amount_col = "" \/ w.amount_col = NO_NUMERIC_COLUMNS_SENTINEL
         THEN "No valid Amount Column selected."
    ELSE IF Strip(w.edit_target) = <<>> THEN "Please enter a target amount."
    ELSE IF ~FloatOk(Strip(w.edit_target)) THEN "Target amount is not a valid number."
    ELSE IF ~FloatOk(TolStr(w)) THEN "Tolerance is not a valid number."
    ELSE IF FloatNegative(TolStr(w)) THEN "Tolerance cannot be negative."
    ELSE IF w.amount_col = "txt" THEN "Amount column contains non-numeric values."
    ELSE ""

\* lines 1041-1054: an exception that leaves a slot reaches sys.excepthook;
\* _global_hook, which main installs, shows the box "Unexpected Error", and
\* a window built without main shows none
Unhandled == {"Unexpected Error", ""}

\* line 834 has run when the target was accepted
TolFieldSet(err) ==
    err \in {"", "Tolerance is not a valid number.", "Tolerance cannot be negative.",
             "Amount column contains non-numeric values."}

\* line 783: QThread.isRunning
IsRunning(w) == w.thread \in {"running", "quitting", "terminating"}

\* lines 782-787: a thread that is running has its worker cancelled and is
\* asked to quit, and the handler blocks in thread.wait(5000)
CleanupBegin(w) ==
    IF w.thread # None /\ IsRunning(w)
    THEN [w EXCEPT !.cancels = IF w.worker # 0 THEN @ + 1 ELSE @,
                   !.thread = "quitting", !.pc = "wait5000"]
    ELSE w

\* lines 790-791
CleanupEnd(w) ==
    IF w.thread = None THEN w
    ELSE [w EXCEPT !.worker = 0, !.thread = None, !.search = "", !.pc = "idle"]

\* a _start_solving that prepares the run before it validates
Rejected_AfterCleanup(w, err) ==
    [w EXCEPT !.worker = 0, !.thread = None, !.search = "",
              !.result_table = 0, !.dialog = err]

\* lines 795-854: a validation failed, the message is shown, the handler returns
Rejected(w, err) ==
    [w EXCEPT !.dialog = err,
              !.edit_tol = IF TolFieldSet(err) THEN TolStr(w) ELSE @]

\* lines 834 and 870: the validations passed, the result table is emptied
StartPrepared(w) ==
    [w EXCEPT !.edit_tol = TolStr(w), !.result_table = 0, !.dialog = "",
              !.handler = "_start_solving"]

\* lines 872-900: the buttons are switched and the worker launched
Launched(w) ==
    [w EXCEPT !.btn_solve = FALSE, !.btn_stop = TRUE, !.btn_export = FALSE,
              !.thread = "running", !.worker = w.created + 1,
              !.created = w.created + 1, !.search = "running",
              !.handler = ""]

\* line 977: the close event is accepted
Closed(w) == [w EXCEPT !.closed = TRUE, !.handler = ""]

\* what follows _cleanup_thread in the handler that called it
AfterCleanup(w) ==
    IF w.handler = "_start_solving" THEN Launched(w) ELSE Closed(w)

\* the handler goes through _cleanup_thread, or blocks in it at line 787
ThroughCleanup(w) ==
    IF CleanupBegin(w).pc = "wait5000" THEN CleanupBegin(w)
    ELSE AfterCleanup(CleanupEnd(w))

\* the main thread is in its event loop and the window is open: the user
\* can act on it
UserCanAct == window.pc = "idle" /\ ~window.closed

notWindowVars == <<workerVars, threadVars, dataVars, regVars, bfsVars, ufVars,
                   cancel_search, memoization_cache, recon, gen_call>>

\* lines 733-770: the file was read and is within the row limit.  The
\* selection is emptied and the lists are refilled, but on a sheet without
\* columns _refresh_column_lists returns at line 627 and selected_list
\* keeps its items.  amount is what the amount combo then holds: the
\* sentinel, a numeric column, or a column astype(float) rejects
Loaded(w, columns, amount) ==
    [w EXCEPT !.df = "loaded", !.originalColumns = columns,
              !.nonstr_labels = FALSE,
              !.selected = IF columns = 0 THEN @ ELSE 0,
              !.amount_col = amount,
              !.dialog = IF amount = NO_NUMERIC_COLUMNS_SENTINEL
                         THEN "File Loaded - No Numeric Columns"
                         ELSE "File Loaded"]

\* lines 733-740 and 772-774: the file was read and is within the row
\* limit, and a column label is not a str (the header cells of a workbook
\* are numbers).  df, originalColumns and selectedColumns are assigned, then
\* _refresh_column_lists raises TypeError at line 634 (or sorted at line
\* 631), before selected_list.clear() of line 642 and before the amount
\* combo is refilled at line 744; the except of line 772 shows the box.
\* selected_list keeps its items and the combo its entries, which name
\* columns of the file before: amount is what the current entry is in the
\* new frame, no column of it ("stale"), a numeric one, or one astype(float)
\* rejects
LoadedThenFailed(w, amount) ==
    [w EXCEPT !.df = "loaded", !.originalColumns = 1, !.nonstr_labels = TRUE,
              !.amount_col = amount,
              !.dialog = "Failed to load file"]

\* lines 702-778, on a click of btn_load: the file dialog is cancelled
\* (lines 706-707), reading the file raises (lines 711-713, 772-774), the
\* file has more rows than the free trial allows (lines 715-731), it is
\* loaded, or an exception raised after the assignments of lines 733-738
\* is caught at line 772
WinLoadFile ==
    /\ UserCanAct
    /\ \/ window' = [window EXCEPT !.dialog = ""]
       \/ window' = [window EXCEPT !.dialog = "Failed to load file"]
       \/ window' = [window EXCEPT !.dialog = "Trial Limit Exceeded"]
       \/ window' = Loaded(window, 0, NO_NUMERIC_COLUMNS_SENTINEL)
       \/ \E amount \in {NO_NUMERIC_COLUMNS_SENTINEL, "amt", "txt"} :
             window' = Loaded(window, 1, amount)
       \/ \E amount \in {"stale", "amt", "txt"} :
             window' = LoadedThenFailed(window,
                          IF window.amount_col \in {"", NO_NUMERIC_COLUMNS_SENTINEL}
                          THEN window.amount_col ELSE amount)
    /\ UNCHANGED notWindowVars

\* lines 646-664: grouping columns are added or removed; without columns
\* _refresh_column_lists returns at line 627 and selected_list stays.  With
\* a label that is not a str every refresh raises TypeError out of the
\* slot: at line 634, selected_list as it was, or at line 644, after
\* selected_list was cleared and the str labels before it were added
WinSelectColumns ==
    /\ UserCanAct
    /\ window.df # None
    /\ \E n \in 0..1, box \in Unhandled :
          window' = [window EXCEPT
                       !.selected = IF window.originalColumns = 0 THEN @ ELSE n,
                       !.dialog = IF window.nonstr_labels THEN box ELSE ""]
    /\ UNCHANGED notWindowVars

\* lines 475-480, 744-753: the user picks another entry of combo_amount.
\* The entries are the numeric-looking columns of the file the combo was
\* filled from (astype(float) accepts "amt" and rejects "txt", a date
\* column); after a load that failed at line 740 they are names of the
\* file before, which the frame in df may not have
WinSelectAmount ==
    /\ UserCanAct
    /\ window.amount_col \notin {"", NO_NUMERIC_COLUMNS_SENTINEL}
    /\ \E amount \in {"amt", "txt"} \cup
                      (IF window.nonstr_labels THEN {"stale"} ELSE {}) :
          /\ amount # window.amount_col
          /\ window' = [window EXCEPT !.amount_col = amount, !.dialog = ""]
    /\ UNCHANGED notWindowVars

\* the user types in the target field (line 486)
WinEditTarget ==
    /\ UserCanAct
    /\ \E t \in Texts : window' = [window EXCEPT !.edit_target = t, !.dialog = ""]
    /\ UNCHANGED notWindowVars

\* the user types in the tolerance field (line 496)
WinEditTol ==
    /\ UserCanAct
    /\ \E t \in Texts : window' = [window EXCEPT !.edit_tol = t, !.dialog = ""]
    /\ UNCHANGED notWindowVars

\* lines 793-900, on a click of btn_solve: up to the return of a failed
\* validation, to the end of the handler, or to thread.wait(5000) of line
\* 787 when the thread of the run before is still running.  When the
\* validations before passed and the amount combo names a column the frame
\* in df does not have, self.df[amount_col] of line 848 raises KeyError,
\* which the except of line 849 does not catch: the handler is left after
\* line 834 and before line 870
WinStartSolving ==
    /\ UserCanAct
    /\ window.btn_solve
    /\ LET err == StartError(window)
       IN  IF err # "" THEN window' = Rejected(window, err)
           ELSE IF window.amount_col = "stale"
           THEN \E box \in Unhandled :
                   window' = [window EXCEPT !.edit_tol = TolStr(window),
                                            !.dialog = box]
           ELSE /\ window.created < MaxLaunches
                /\ window' = ThroughCleanup(StartPrepared(window))
    /\ UNCHANGED notWindowVars

\* lines 975-977, the window is closed: to the end of the handler, or to
\* thread.wait(5000) of line 787
WinCloseEvent ==
    /\ UserCanAct
    /\ window' = ThroughCleanup([window EXCEPT !.handler = "closeEvent",
                                              !.dialog = ""])
    /\ UNCHANGED notWindowVars

\* line 787, thread.wait(5000) returns True: the thread has stopped; lines
\* 790-791 and the rest of the handler
WinWaitEnds ==
    /\ window.pc = "wait5000"
    /\ window.thread = "finished"
    /\ window' = AfterCleanup(CleanupEnd(window))
    /\ UNCHANGED notWindowVars

\* lines 787-788, thread.wait(5000) returns False: the thread has not
\* stopped in time and is terminated; the handler blocks in thread.wait(2000)
WinWaitTimesOut ==
    /\ window.pc = "wait5000"
    /\ window.thread # "finished"
    /\ window' = [window EXCEPT !.thread = "terminating", !.pc = "wait2000"]
    /\ UNCHANGED notWindowVars

\* line 789, thread.wait(2000) returns, the thread stopped or not; lines
\* 790-791 and the rest of the handler
WinTerminateWaitEnds ==
    /\ window.pc = "wait2000"
    /\ window' = AfterCleanup(CleanupEnd(window))
    /\ UNCHANGED notWindowVars

\* lines 902-905, on a click of btn_stop
WinStopSolving ==
    /\ UserCanAct
    /\ window.btn_stop
    /\ window.cancels < MaxLaunches
    /\ window' = [window EXCEPT !.cancels = IF window.worker # 0 THEN @ + 1 ELSE @,
                                !.dialog = ""]
    /\ UNCHANGED notWindowVars

\* lines 939-970, on a click of btn_export: no file was loaded (lines
\* 940-943), the save dialog is cancelled (lines 952-953), the file is
\* written with the solution_set column of candidate_df (lines 956-964),
\* or writing it raises (lines 965-968)
WinExportXlsx ==
    /\ UserCanAct
    /\ window.btn_export
    /\ IF window.df = None
       THEN window' = [window EXCEPT !.dialog = "No data available to export."]
       ELSE \/ window' = [window EXCEPT !.dialog = ""]
            \/ window' = [window EXCEPT !.dialog = "Export Successful",
                                        !.exported = <<window.candidate_df>>]
            \/ window' = [window EXCEPT !.dialog = "Failed to export Excel file"]
    /\ UNCHANGED notWindowVars

\* run_search emits finished, with a table or with None (lines 661-668 of
\* core_recon_engine.py), on the worker's thread: the signal is queued for
\* the main thread
WinWorkerEmits ==
    /\ IsRunning(window)
    /\ window.search = "running"
    /\ \E has_table \in BOOLEAN :
          window' = [window EXCEPT
                       !.search = "returned",
                       !.pending = Append(@, [worker |-> window.worker,
                                              table |-> has_table])]
    /\ UNCHANGED notWindowVars

\* the main thread delivers a finished signal to the two slots connected
\* at lines 897 and 899: _on_search_finished (lines 907-923), then quit of
\* the thread the worker was started on
WinSearchFinished ==
    /\ window.pc = "idle"
    /\ window.pending # <<>>
    /\ LET sig == Head(window.pending)
       IN  window' = [window EXCEPT
                        !.pending = Tail(@),
                        !.thread = IF sig.worker = window.worker /\ @ = "running"
                                   THEN "quitting" ELSE @,
                        !.btn_solve = TRUE, !.btn_stop = FALSE,
                        !.btn_export = IF sig.table THEN TRUE ELSE @,
                        !.candidate_df = IF sig.table THEN sig.worker ELSE @,
                        !.result_table = IF sig.table THEN sig.worker ELSE @,
                        !.dialog = ""]
    /\ UNCHANGED notWindowVars

\* the thread stops: its event loop ends once quit was called and
\* run_search has returned, or terminate takes effect
WinThreadStopped ==
    /\ window.thread \in (IF window.search = "returned"
                          THEN {"quitting", "terminating"} ELSE {"terminating"})
    /\ window' = [window EXCEPT !.thread = "finished"]
    /\ UNCHANGED notWindowVars

InitWin ==
    /\ df = <<>>
    /\ candidate_cols = AllCols
    /\ target = 0
    /\ tol_value = 0
    /\ static_ordering = FALSE
    /\ subset_mode = "Original Mode"
    /\ worker_cancel = FALSE
    /\ worker_engine = None
    /\ run_pc = "idle"
    /\ cancel_pc = "idle"
    /\ cancel_calls = 0
    /\ finished_out = None
    /\ exc = None
    /\ EngineFresh
    /\ UFIdle
    /\ UIIdle

NextWin ==
    \/ WinLoadFile
    \/ WinSelectColumns
    \/ WinSelectAmount
    \/ WinEditTarget
    \/ WinEditTol
    \/ WinStartSolving
    \/ WinCloseEvent
    \/ WinWaitEnds
    \/ WinWaitTimesOut
    \/ WinTerminateWaitEnds
    \/ WinStopSolving
    \/ WinExportXlsx
    \/ WinWorkerEmits
    \/ WinSearchFinished
    \/ WinThreadStopped

SpecWin == InitWin /\ [][NextWin]_vars

(***************************************************************************)
(* C1.  Every registered solution selects rows whose amounts sum to within *)
(* the tolerance of the target.                                            *)
(***************************************************************************)
C1_RegisteredSumsMatch ==
    \A i \in DOMAIN candidate_rule_results : Matches(SumRows(ResultMask(i)))

(***************************************************************************)
(* C2.  No two entries of the results list select the same set of rows.    *)
(***************************************************************************)
C2_DistinctFingerprints ==
    \A i, j \in DOMAIN candidate_rule_results :
        i # j => MaskKey(ResultMask(i)) # MaskKey(ResultMask(j))

\* two tasks hold candidates for one row set: one was registered, the other
\* was turned away
C2_Witness ==
    /\ \E i \in DOMAIN futures : futures[i].ret = "False"
    /\ candidate_rule_results # <<>>

(***************************************************************************)
(* C3.  After an uncancelled search, the row set of every rule (one        *)
(* non-empty category subset per grouping column) that selects some rows   *)
(* summing to within the tolerance of the target is in the registry.       *)
(***************************************************************************)
C3_EveryMatchingRuleFound ==
    (SearchReturned /\ Uncancelled) =>
        \A f \in FullRules :
            (IsFullRule(f) /\ RowsOfFullRule(f) # {}
                /\ Matches(SumRows(RowsOfFullRule(f))))
            => MaskKey(RowsOfFullRule(f)) \in DOMAIN solution_mask_map

(***************************************************************************)
(* C4.  After an uncancelled search the set of registered row sets is the  *)
(* same under every interleaving of the tasks: it is the set the           *)
(* one-task-at-a-time interleaving registers.                              *)
(***************************************************************************)
C4_SameSetUnderEveryInterleaving ==
    (SearchReturned /\ Uncancelled) =>
        DOMAIN solution_mask_map = Fingerprints(SequentialSearch)

(***************************************************************************)
(* The threads of the program are scheduled by the operating system: the   *)
(* thread inside cancel(), the worker's thread and the pool's threads each *)
(* run on until they return.  Nothing obliges anyone to call cancel().     *)
(***************************************************************************)
\* a step of the worker's thread or of a pool thread
EngineStep ==
    \/ RunConstruct
    \/ RunPropagate
    \/ RunPrepare
    \/ SearchStart
    \/ LoopEnter
    \/ Submit
    \/ LoopExit
    \/ CollectTest
    \/ CollectResult
    \/ LevelEnd
    \/ Dequeue
    \/ Begin
    \/ Register
    \/ LoopTest
    \/ Yield
    \/ RunFinish

\* every step of a thread changes pcVars
pcVars == <<run_pc, cancel_pc, bfs_pc, futures>>

\* ENABLED <<EngineStep>>_pcVars: until run_search has finished, the worker's
\* thread can step or, while it waits for the executor, a pool thread can
EngineCanStep == run_pc # "finished"

\* weak fairness of the thread inside cancel() and of the engine's threads,
\* the latter with its ENABLED written as the state predicate it is
FairSpec ==
    /\ Spec
    /\ WF_pcVars(CancelPropagate)
    /\ ([]<>(~EngineCanStep) \/ []<><<EngineStep>>_pcVars)

Started(task) == task.st # "queued"

InsideProcessState(task) == task.st \in {"running", "register", "gen", "body"}

\* the task is in the loop over its generator (lines 351-362)
Emitting(task) == task.st \in {"gen", "body"}

\* task i reads the flag in this step: line 293 or line 353
ReadsFlag(i) ==
    /\ futures[i].st \in {"queued", "gen"}
    /\ futures'[i] # futures[i]

\* the calls of cancel() that have returned
CancelCompleted == cancel_calls - (IF cancel_pc = "called" THEN 1 ELSE 0)

IsPrefix(s, t) == Len(s) <= Len(t) /\ SubSeq(t, 1, Len(s)) = s

(***************************************************************************)
(* C5.  Once the cancel flag is set during search(): no level is started   *)
(* any more, so that no task of a level after the one in progress ever     *)
(* exists; a task of the level in progress that reads the flag returns     *)
(* without children, and a task that is past its test of the flag comes to *)
(* a test of the flag or returns at its next step; every task returns and  *)
(* search() eventually returns.                                            *)
(***************************************************************************)
C5_CancelStopsSearch ==
    /\ [][cancel_search =>
            /\ level' = level
            /\ \A i \in DOMAIN futures' : futures'[i].level <= level
            /\ \A i \in DOMAIN futures :
                  /\ ReadsFlag(i)
                        => futures'[i].st = "done" /\ futures'[i].res = <<>>
                  /\ futures'[i] # futures[i]
                        => futures'[i].st \in {"gen", "register", "done"}]_vars
    /\ (cancel_search /\ run_pc = "searching")
          ~> (SearchReturned /\ \A i \in DOMAIN futures : futures[i].st = "done")

\* the flag was set during the second level: its tasks returned, search()
\* returned, and the states collected for a third level were never submitted
C5_Witness ==
    /\ SearchReturned
    /\ cancel_search
    /\ level = 2
    /\ \A i \in DOMAIN futures : futures[i].st = "done"
    /\ current_level # <<>>

(***************************************************************************)
(* C6.  Setting the cancel flag removes or alters no registered solution:  *)
(* under the flag the results list only grows at its end, and when the     *)
(* cancelled search has returned get_candidate_results returns every entry *)
(* of the list, with its id and its row set.                               *)
(***************************************************************************)
C6_CancelKeepsSolutions ==
    /\ [][cancel_search' =>
            /\ IsPrefix(candidate_rule_results, candidate_rule_results')
            /\ \A k \in DOMAIN solution_mask_map :
                  /\ k \in DOMAIN solution_mask_map'
                  /\ solution_mask_map'[k] = solution_mask_map[k]]_vars
    /\ []((SearchReturned /\ cancel_search) =>
            \A i \in DOMAIN candidate_rule_results :
               \E n \in DOMAIN get_candidate_results(candidate_rule_results) :
                  LET r == get_candidate_results(candidate_rule_results)[n]
                  IN  /\ r.solution_id = candidate_rule_results[i].solution_id
                      /\ FullMask(r.rule) = ResultMask(i))

\* a search cancelled during its first level reported the two solutions
\* that its only task registered
C6_Witness ==
    /\ run_pc = "finished"
    /\ cancel_search
    /\ level = 1
    /\ Len(candidate_rule_results) = 2
    /\ finished_out.found = 2

(***************************************************************************)
(* C7.  A call of cancel() is never lost: once a call has returned and     *)
(* run_search is past its lines 612-613, the engine's flag is set; the     *)
(* flag is never reset; and a search that starts with the flag set starts  *)
(* no level and puts no state in the memo.                                 *)
(***************************************************************************)
C7_CancelNeverLost ==
    /\ [](CancelCompleted >= 1 /\ run_pc \notin {"start", "propagate"}
            => cancel_search)
    /\ [][worker_engine # None /\ cancel_search => cancel_search']_vars
    /\ [][cancel_search /\ run_pc \in {"search", "searching"} /\ level = 0
            => level' = 0 /\ memoization_cache' = {} /\ futures' = <<>>]_vars

\* cancel() read self.engine before run_search stored it, so the flag was
\* set by run_search; the search of a table with rows expanded nothing
C7_Witness ==
    /\ run_pc = "finished"
    /\ CancelCompleted >= 1
    /\ cancel_search
    /\ AllRows # {}
    /\ level = 0
    /\ memoization_cache = {}
    /\ futures = <<>>

(***************************************************************************)
(* C8.  Level-synchronous search: when a task of a level has started,      *)
(* every task of the levels before it has returned.                        *)
(***************************************************************************)
C8_LevelBarrier ==
    \A i, j \in DOMAIN futures :
        (Started(futures[i]) /\ futures[j].level < futures[i].level)
        => futures[j].st = "done"

\* the flag is set while a task of the third level is inside process_state:
\* the tasks of the first two levels have all returned
C8_Witness ==
    /\ cancel_search
    /\ \E i, j \in DOMAIN futures :
          /\ futures[j].level = 2
          /\ futures[j].st = "done"
          /\ futures[i].level = 3
          /\ InsideProcessState(futures[i])

(***************************************************************************)
(* Definitions the properties of compute_clusters_from_pairs are stated    *)
(* with.                                                                   *)
(***************************************************************************)
\* the ids that appear in either id column
IdsIn(pairs) == Range(IdColumns(pairs))

\* a and b are the two ids of a pair record
Paired(pairs, a, b) ==
    \E i \in DOMAIN pairs :
        \/ pairs[i].l = a /\ pairs[i].r = b
        \/ pairs[i].l = b /\ pairs[i].r = a

\* the ids reached from the ids of S by chains of at most n pair records
RECURSIVE ChainedFrom(_, _, _)
ChainedFrom(pairs, S, n) ==
    IF n = 0 THEN S
    ELSE ChainedFrom(pairs,
            S \cup {b \in IdsIn(pairs) : \E a \in S : Paired(pairs, a, b)}, n - 1)

Chained(pairs, a, b) == b \in ChainedFrom(pairs, {a}, Len(pairs))

Component(pairs, a) == ChainedFrom(pairs, {a}, Len(pairs))

Returned_UF == uf_pc = "done"

\* the components in the order in which the ids of the columns first meet them
RECURSIVE ComponentsInOrder(_, _, _)
ComponentsInOrder(pairs, uids, acc) ==
    IF uids = <<>> THEN acc
    ELSE LET comp == Component(pairs, Head(uids))
         IN  ComponentsInOrder(pairs, Tail(uids),
                IF comp \in Range(acc) THEN acc ELSE Append(acc, comp))

(***************************************************************************)
(* C9.  When compute_clusters_from_pairs has returned, two ids of the pair *)
(* table have the same cluster id in its result if and only if a chain of  *)
(* pair records connects them.                                             *)
(***************************************************************************)
C9_SameClusterIffChained ==
    Returned_UF =>
        \A a, b \in IdsIn(df_pairs) :
            Chained(df_pairs, a, b)
            <=> (Has(result, a) /\ Has(result, b) /\ Get(result, a) = Get(result, b))

(***************************************************************************)
(* C10.  When compute_clusters_from_pairs has returned, every id of either *)
(* id column is a key of the result, and the cluster ids are 1, 2, ... one *)
(* per connected component, in the order in which the components are first *)
(* met while iterating the ids.                                            *)
(***************************************************************************)
C10_EveryIdMappedDenseInOrder ==
    Returned_UF =>
        LET comps == ComponentsInOrder(df_pairs, IdColumns(df_pairs), <<>>)
        IN  \A a \in IdsIn(df_pairs) :
                /\ Has(result, a)
                /\ Get(result, a) \in DOMAIN comps
                /\ comps[Get(result, a)] = Component(df_pairs, a)

(***************************************************************************)
(* C11.  In the table that run_search emits, the solution_set label of     *)
(* every original row is the ascending list of the ids of exactly the      *)
(* registered solutions whose selection, taken through kept_indices to     *)
(* original row positions, contains the row; a row in no solution, every   *)
(* zero-amount row among them, has the empty label.                        *)
(***************************************************************************)
SolutionsOfRow(r) ==
    {candidate_rule_results[i].solution_id :
        i \in {k \in DOMAIN candidate_rule_results :
                  \E j \in ResultMask(k) : kept_indices[j] = r}}

HasOutputTable == run_pc = "finished" /\ finished_out.found > 0

C11_LabelsAreSolutionIds ==
    HasOutputTable =>
        \A r \in DOMAIN df :
            /\ finished_out.solution_set[r] = SortedSeq(SolutionsOfRow(r))
            /\ df[r].amt = 0 => finished_out.solution_set[r] = <<>>

\* a zero-amount row stands between two selected rows, so that the
\* post-filter position of the second differs from its original position:
\* the zero row has the empty label, the rows around it carry the id of the
\* solution
C11_Witness ==
    /\ HasOutputTable
    /\ \E r1, z, r2 \in DOMAIN df :
          /\ r1 < z
          /\ z < r2
          /\ df[z].amt = 0
          /\ finished_out.solution_set[z] = <<>>
          /\ finished_out.solution_set[r1] = <<1>>
          /\ finished_out.solution_set[r2] = <<1>>

(***************************************************************************)
(* C12.  Dropping the zero-amount rows preserves the sums rules reach.  A  *)
(* rule gives every grouping column a non-empty set of raw values.  After  *)
(* prepare_data, for every rule the amounts of the rows it selects in the  *)
(* table as given sum to what the rows it selects in the engine's filtered *)
(* and encoded arrays sum to; so the two sets of reachable sums are equal. *)
(***************************************************************************)
RawRules == [Range(candidate_cols) -> (SUBSET (0..MaxCatVal)) \ {{}}]

RECURSIVE SumAmounts(_, _)
SumAmounts(d, rows) ==
    IF rows = {} THEN 0
    ELSE LET r == Min(rows) IN d[r].amt + SumAmounts(d, rows \ {r})

\* the rows of the table as given that a rule selects
UnfilteredSelection(R) ==
    {r \in DOMAIN df : \A c \in Range(candidate_cols) : df[r].cat[c] \in R[c]}

\* the rule in the category ids of the filtered table
EncodedRule(R) ==
    [i \in DOMAIN all_columns |->
        [col  |-> all_columns[i],
         cats |-> {C2I(df, all_columns[i], v) :
                     v \in R[all_columns[i]] \cap UniqueVals(df, all_columns[i])}]]

\* prepare_data has returned; the table and the arrays never change after it
Prepared == run_pc = "search"

C12_ZeroRowsPreserveSums ==
    Prepared =>
        /\ \A R \in RawRules :
              SumAmounts(df, UnfilteredSelection(R))
                  = SumRows(FullMask(EncodedRule(R)))
        /\ {SumAmounts(df, UnfilteredSelection(R)) : R \in RawRules}
              = {SumRows(FullMask(EncodedRule(R))) : R \in RawRules}

\* a table with a zero-amount row in which the encoding renumbers a category,
\* and a rule that selects the zero row together with a row that is kept
C12_Witness ==
    /\ Prepared
    /\ zero_rows_excluded >= 1
    /\ \E c \in Range(candidate_cols) :
          \E v \in UniqueVals(df, c) : C2I(df, c, v) # v
    /\ \E R \in RawRules :
          /\ \E r \in UnfilteredSelection(R) : df[r].amt = 0
          /\ FullMask(EncodedRule(R)) # {}
          /\ SumRows(FullMask(EncodedRule(R))) # 0

(***************************************************************************)
(* C13.  An error inside a process_state task never leaves search(): when  *)
(* the driver comes to a task that failed, the task contributes no child,  *)
(* the driver goes on with the next future or with the end of the level,   *)
(* and search() never ends with the error.                                 *)
(***************************************************************************)
C13_TaskErrorContained ==
    /\ [][(bfs_pc = "result" /\ futures[fi].st = "raised" /\ bfs_pc' # "result")
            => /\ bfs_pc' \in {"collect", "shutdown"}
               /\ next_level' = next_level]_vars
    /\ [](bfs_pc # "raised")

(***************************************************************************)
(* C14.  In ReconWorker.run an exception raised while the engine of a      *)
(* cluster is built, prepared or searched is reported through the progress *)
(* signal, the cluster gets no recon group, the loop goes on with the next *)
(* cluster, so that unless stop() was called every later cluster is        *)
(* processed, and the run ends with finished, never with error.            *)
(***************************************************************************)
\* the constructor of the engine raises on the worker's tolerance
BuildRaises == ~recon.tol_float

\* prepare_data raises on cluster k
PrepareRaises(k) == ~recon.clusters[k].numeric

\* the search of cluster k comes to register a solution and raises there:
\* under an infinite tolerance every candidate of the root matches, and
\* the root has a candidate when the cluster has a row left
SearchRaises(k) ==
    /\ tol_value = Infinity
    /\ \E r \in DOMAIN recon.clusters[k].rows : recon.clusters[k].rows[r].amt # 0

\* an engine is started for cluster k and something raises in the try
ClusterRaises(k) ==
    /\ ArrLen(recon.clusters[k].rows) >= 2
    /\ BuildRaises \/ PrepareRaises(k) \/ SearchRaises(k)

\* the worker is at the point where the exception is raised, for the
\* cluster in progress
AtRaise ==
    \/ recon.pc = "try" /\ (BuildRaises \/ PrepareRaises(recon.k))
    \/ recon.pc = "searching" /\ bfs_pc = "raised"

Warned(k) ==
    \E m \in DOMAIN recon.progress :
        recon.progress[m].kind = "warning" /\ recon.progress[m].cid = k

ReconDone == recon.pc = "done"

C14_ClusterErrorSkipsCluster ==
    /\ [][(AtRaise /\ recon'.pc # recon.pc) =>
            /\ recon'.progress =
                 Append(recon.progress,
                        [kind |-> "warning", cid |-> recon.k, n |-> 0])
            /\ recon'.recon_group = recon.recon_group
            /\ recon'.global_group_counter = recon.global_group_counter
            /\ recon'.out = None
            /\ recon'.pc = "loop"
            /\ recon'.k = recon.k + 1]_vars
    /\ [][(recon.pc = "searching" /\ recon'.pc # "searching"
             /\ SearchRaises(recon.k)) => bfs_pc = "raised"]_vars
    /\ [](ReconDone =>
            /\ recon.out = "finished"
            /\ \A k \in DOMAIN recon.clusters :
                  /\ ClusterRaises(k) =>
                        \A r \in DOMAIN recon.clusters[k].rows :
                            recon.recon_group[k][r] = <<>>
                  /\ Warned(k) => ClusterRaises(k) /\ k \notin Range(recon.searched)
                  /\ (~recon.stop /\ ArrLen(recon.clusters[k].rows) >= 2) =>
                        IF ClusterRaises(k) THEN Warned(k)
                        ELSE k \in Range(recon.searched))

\* the first cluster raised and was reported, the second one was searched
\* after it and got a recon group, and the run ended with finished
C14_Witness ==
    /\ ReconDone
    /\ recon.out = "finished"
    /\ Len(recon.clusters) = 2
    /\ ClusterRaises(1)
    /\ Warned(1)
    /\ recon.searched = <<2>>
    /\ \E r \in DOMAIN recon.clusters[2].rows : recon.recon_group[2][r] = <<1>>

(***************************************************************************)
(* C15.  When a validation of _start_solving fails (no file, no grouping   *)
(* column, no valid amount column, empty or non-numeric target,            *)
(* non-numeric or negative tolerance, non-numeric amount column), no       *)
(* worker or thread is created, no search is cancelled, and the result     *)
(* table, the thread and the worker are left as they were.                 *)
(***************************************************************************)
StartErrors ==
    {"Please load a file first.", "Please select at least one grouping column.",
     "No valid Amount Column selected.", "Please enter a target amount.",
     "Target amount is not a valid number.", "Tolerance is not a valid number.",
     "Tolerance cannot be negative.", "Amount column contains non-numeric values."}

\* the inputs pass every validation the claim lists
InputsValid(w) ==
    /\ w.df # None
    /\ w.selected >= 1
    /\ w.amount_col = "amt"
    /\ Strip(w.edit_target) # <<>>
    /\ FloatOk(w.edit_target)
    /\ Strip(w.edit_tol) # <<>> => FloatOk(w.edit_tol) /\ ~FloatNegative(w.edit_tol)

C15_FailedValidationChangesNothing ==
    /\ [][(WinStartSolving /\ window'.dialog \in StartErrors) =>
            /\ window'.thread = window.thread
            /\ window'.worker = window.worker
            /\ window'.created = window.created
            /\ window'.cancels = window.cancels
            /\ window'.result_table = window.result_table
            /\ window'.candidate_df = window.candidate_df]_vars
    /\ [][(window'.created # window.created
             \/ (window'.thread = "running" /\ window.thread # "running"))
            => InputsValid(window)]_vars
    /\ [][(window.btn_solve /\ ~InputsValid(window)) =>
             window'.created = window.created]_vars

\* a search has ended with a result table and its thread has not stopped yet;
\* a click on Start Solving with a target that is not a number was turned
\* away: the table, the worker and the thread are still there
C15_Witness ==
    /\ window.dialog = "Target amount is not a valid number."
    /\ window.thread = "quitting"
    /\ window.worker = 1
    /\ window.result_table = 1
    /\ window.cancels = 0
    /\ window.created = 1

(***************************************************************************)
(* C16.  Whenever the amounts of all non-zero rows sum to within the       *)
(* tolerance of the target (there are grouping columns), a search that     *)
(* returned uncancelled has registered the solution whose row set is the   *)
(* set of all non-zero rows, whatever the interleaving of the tasks.       *)
(***************************************************************************)
FullSetMatches == Matches(SumRows(AllRows))

FullSetRegistered == MaskKey(AllRows) \in DOMAIN solution_mask_map

C16_FullSetRegistered ==
    (SearchReturned /\ Uncancelled /\ all_columns # <<>> /\ FullSetMatches)
        => FullSetRegistered

(***************************************************************************)
(* C16, amended.  The same when at least one row has a non-zero amount: a  *)
(* table whose amounts are all zero has no solution, its empty set of      *)
(* non-zero rows is not registered.                                        *)
(***************************************************************************)
C16_FullSetRegistered_NonEmpty ==
    (SearchReturned /\ Uncancelled /\ all_columns # <<>> /\ FullSetMatches
        /\ AllRows # {})
        => FullSetRegistered

\* a table with a zero-amount row and two other rows that sum to the target:
\* the search ran two levels and returned with the two non-zero rows
\* registered as a solution
C16_Witness ==
    /\ SearchReturned
    /\ Uncancelled
    /\ FullSetMatches
    /\ zero_rows_excluded = 1
    /\ level >= 2
    /\ FullSetRegistered

(***************************************************************************)
(* C17.  The solution messages and the registry.  register_solution does   *)
(* lines 276-288 under memo_lock, so the registry and the sink are seen    *)
(* between two complete calls.                                             *)
(***************************************************************************)
SolutionMessageIds == [i \in DOMAIN progress_msgs |-> progress_msgs[i].solution_id]

RegisteredIds ==
    [i \in DOMAIN candidate_rule_results |-> candidate_rule_results[i].solution_id]

\* C17: at every point the number of solution messages sent to the progress
\* sink equals the number of entries of the registry (fingerprint map and
\* results list), there is exactly one message for each registered solution
\* and none for a rejected duplicate, and the messages carry the ids
\* 1, 2, ... in increasing order
C17_OneMessagePerSolution ==
    /\ Len(progress_msgs) = Cardinality(DOMAIN solution_mask_map)
    /\ SolutionMessageIds = RegisteredIds
    /\ \A i \in DOMAIN progress_msgs : progress_msgs[i].solution_id = i
    /\ \A k \in DOMAIN solution_mask_map :
          \E i \in DOMAIN progress_msgs :
              progress_msgs[i].solution_id = solution_mask_map[k]

(***************************************************************************)
(* C18.  The registry: solution_counter, candidate_rule_results and        *)
(* solution_mask_map.                                                      *)
(***************************************************************************)
RegistryConsistent ==
    /\ solution_counter = Len(candidate_rule_results)
    /\ solution_counter = Cardinality(DOMAIN solution_mask_map)
    /\ \A i \in DOMAIN candidate_rule_results :
          candidate_rule_results[i].solution_id = i
    /\ {solution_mask_map[k] : k \in DOMAIN solution_mask_map} = 1..solution_counter

\* a step inside one call of search(): after line 387 and up to the return
InsideSearch == run_pc = "searching" /\ run_pc' = "searching"

RegistryGrows ==
    /\ solution_counter' >= solution_counter
    /\ Len(candidate_rule_results') >= Len(candidate_rule_results)
    /\ SubSeq(candidate_rule_results', 1, Len(candidate_rule_results))
          = candidate_rule_results
    /\ \A k \in DOMAIN solution_mask_map :
          /\ k \in DOMAIN solution_mask_map'
          /\ solution_mask_map'[k] = solution_mask_map[k]

\* C18: in every reachable state, under any interleaving of the workers,
\* solution_counter equals the length of the results list and the size of
\* the fingerprint map, the ids of the results list are 1..solution_counter
\* in increasing order without gap or repeat, and between the start and the
\* end of one search() call the registry only grows
C18_RegistryConsistentAndGrowing ==
    /\ []RegistryConsistent
    /\ [][InsideSearch => RegistryGrows]_vars

(***************************************************************************)
(* C19.  The mask of a state and the mask of its rule.                     *)
(***************************************************************************)
\* the states the BFS holds: the level being expanded, the children
\* collected so far, the states of the tasks that have not returned, and
\* the children a task has emitted or returned
CreatedStates ==
    Range(current_level) \cup Range(next_level)
    \cup {futures[i].state : i \in {k \in DOMAIN futures : futures[k].st # "done"}}
    \cup UNION {Range(futures[i].next_states) : i \in DOMAIN futures}
    \cup UNION {Range(futures[i].res) : i \in DOMAIN futures}

\* the intersection, over the constrained columns of the rule, of the union
\* of the category masks of the chosen categories
RuleMask(rule) ==
    {j \in AllRows :
        \A i \in DOMAIN rule : \E c \in rule[i].cats : j \in cat_masks(rule[i].col, c)}

\* C19: for every state created by the BFS, root and emitted children, the
\* mask of the state is the intersection over the constrained columns of
\* its rule of the union of the masks of the chosen categories, and the
\* mask that register_solution recomputes from the completed rule of the
\* state is the mask of the state
C19_StateMaskIsRuleMask ==
    \A s \in CreatedStates :
        /\ s.mask = RuleMask(s.rule)
        /\ FullMask(complete_rule(s.rule, s.mask)) = s.mask

\* a child constrained on both columns, whose rule selects a proper
\* subset of the rows, has been emitted and its row set is registered
C19_Witness ==
    \E s \in CreatedStates :
        /\ Len(s.rule) = 2
        /\ s.mask # {}
        /\ s.mask # AllRows
        /\ \E i \in DOMAIN s.rule : s.rule[i].cats # all_categories[s.rule[i].col]
        /\ MaskKey(s.mask) \in DOMAIN solution_mask_map

(***************************************************************************)
(* C20.  The rules of the states and of the registry.                      *)
(***************************************************************************)
\* every column of the rule is a grouping column, constrained once, to a
\* non-empty set of category ids of that column
RuleWellFormed(rule) ==
    /\ \A i \in DOMAIN rule :
          /\ rule[i].col \in Range(all_columns)
          /\ rule[i].cats # {}
          /\ rule[i].cats \subseteq all_categories[rule[i].col]
    /\ \A i, j \in DOMAIN rule : rule[i].col = rule[j].col => i = j

\* the first n columns of the rule are in the order of branching: the i-th
\* is the column process_state chose (lines 333-338) for the state whose
\* rule is the first i - 1 entries
BranchingOrder(rule, n) ==
    \A i \in 1..n :
        LET parent_rule == SubSeq(rule, 1, i - 1)
        IN  rule[i].col = NextCol(parent_rule, RuleMask(parent_rule))

\* a completed rule: a rule in branching order, followed by the columns
\* complete_rule added (lines 258-261)
CompletedInBranchingOrder(rule) ==
    \E n \in 0..Len(rule) :
        /\ BranchingOrder(rule, n)
        /\ rule = complete_rule(SubSeq(rule, 1, n), RuleMask(SubSeq(rule, 1, n)))

\* C20: in the rule of every state and in every completed rule of the
\* registry each constrained column maps to a non-empty set of valid
\* category ids of that column, and the columns are in the order in which
\* the BFS branched on them (in a completed rule, followed by the columns
\* that complete_rule appended)
C20_RulesWellFormedInBranchingOrder ==
    /\ \A s \in CreatedStates :
          /\ RuleWellFormed(s.rule)
          /\ BranchingOrder(s.rule, Len(s.rule))
    /\ \A k \in DOMAIN candidate_rule_results :
          /\ RuleWellFormed(candidate_rule_results[k].rule)
          /\ CompletedInBranchingOrder(candidate_rule_results[k].rule)

\* with dynamic ordering the BFS branched on the second grouping column
\* before the first and then on a proper subset of the categories of the
\* first, and a completed rule in that order is in the registry
C20_Witness ==
    /\ Len(all_columns) = 2
    /\ \E s \in CreatedStates :
          /\ Len(s.rule) = 2
          /\ s.rule[1].col = all_columns[2]
          /\ s.rule[2].cats # all_categories[s.rule[2].col]
    /\ \E k \in DOMAIN candidate_rule_results :
          /\ Len(candidate_rule_results[k].rule) = 2
          /\ candidate_rule_results[k].rule[1].col = all_columns[2]

(***************************************************************************)
(* C21.  The memoization check-and-insert of process_state (lines 300-317).*)
(***************************************************************************)
StateKey(state) == rule_to_key(state.rule)

StateMirrorKey(state) == rule_to_key(mirror_rule(state.rule))

\* task i does lines 304-310 in this step
PassesMemoCheck(i) ==
    /\ i \in DOMAIN futures
    /\ futures[i].st = "running"
    /\ futures'[i].st # "running"

\* what the step of the memoization check does for task i
MemoCheckStep(i) ==
    LET state == futures[i].state
        keys  == {StateKey(state), StateMirrorKey(state)}
    IN  IF keys \cap memoization_cache # {}
        THEN /\ memoization_cache' = memoization_cache
             /\ futures'[i].st = IF Matches(SumRows(state.mask))
                                 THEN "register" ELSE "done"
             /\ futures'[i].res = <<>>
             /\ futures'[i].next_states = <<>>
        ELSE memoization_cache' = memoization_cache \cup keys

\* a task that registers its own row set returns no children
RegisterReturnsNothing(i) ==
    (i \in DOMAIN futures /\ futures[i].st = "register" /\ futures'[i].st = "done")
        => futures'[i].res = <<>>

\* the tasks that got past the check and emit children hold distinct keys,
\* none the mirror key of another, and their keys are in the set
OnePastTheCheck ==
    \A i, j \in DOMAIN futures :
        (Emitting(futures[i]) /\ Emitting(futures[j]) /\ i # j) =>
            /\ StateKey(futures[i].state) # StateKey(futures[j].state)
            /\ StateKey(futures[i].state) # StateMirrorKey(futures[j].state)
            /\ StateKey(futures[i].state) \in memoization_cache

\* C21: the memoization check-and-insert is atomic: under any interleaving,
\* a task gets past the check only if neither its rule key nor its mirror
\* key is in the set, and both are in the set from then on, so for each key
\* at most one task goes on to emit children; a task that finds either key
\* in the set returns no children, after registering its own row set if
\* its sum matches the target
C21_MemoCheckAtomic ==
    /\ []OnePastTheCheck
    /\ [][/\ \A i \in DOMAIN futures :
               /\ PassesMemoCheck(i) => MemoCheckStep(i)
               /\ RegisterReturnsNothing(i)
          /\ (run_pc = "searching" /\ run_pc' = "searching")
                => memoization_cache \subseteq memoization_cache']_vars

\* two tasks of one level hold the same state: one got past the check and
\* is emitting children, the other found the key and is about to register
\* its own row set
C21_Witness ==
    \E i, j \in DOMAIN futures :
        /\ i # j
        /\ futures[i].level = futures[j].level
        /\ futures[i].state = futures[j].state
        /\ futures[i].state.rule # <<>>
        /\ Emitting(futures[i])
        /\ futures[j].st = "register"

(***************************************************************************)
(* C22.  check_pruning against the bound evaluator as it is specified.     *)
(***************************************************************************)
GenPrepared == gen_call.pc \in {"prepared", "original", "new"}

\* the sums a selection of rows, or the rest of the rows, can have
SumRange == (0 - GenRows)..GenRows

NonNegativeSum(mask) == SumRows({j \in mask : ~(value_array[j] < 0)})

NonPositiveSum(mask) == SumRows({j \in mask : ~(value_array[j] > 0)})

\* viable as specified: u >= T - tol when s < T, l <= T + tol when s > T
Viable(mask, s) ==
    \/ s = TARGET_SUM
    \/ s < TARGET_SUM /\ NonNegativeSum(mask) >= TARGET_SUM - tol
    \/ s > TARGET_SUM /\ NonPositiveSum(mask) <= TARGET_SUM + tol

\* C22: check_pruning(mask, s) returns viable exactly as specified, for
\* every mask and every sum s: when s < T iff the sum of the non-negative
\* amounts of the mask is >= T - tol, when s > T iff the sum of the
\* non-positive amounts of the mask is <= T + tol, when s = T always
C22_CheckPruningAsSpecified ==
    GenPrepared =>
        \A mask \in SUBSET AllRows : \A s \in SumRange :
            check_pruning(mask, s) <=> Viable(mask, s)

\* a generator was called with a parent mask whose sum is below the target
\* and whose upper bound is exactly T - tol, on a table that also has a
\* selection that is not viable
C22_Witness ==
    /\ gen_call.pc = "original"
    /\ SumRows(gen_call.mask) < TARGET_SUM
    /\ UpperBound(gen_call.mask) = TARGET_SUM - tol
    /\ gen_call.original # <<>>
    /\ \E m \in SUBSET AllRows : ~check_pruning(m, SumRows(m))

(***************************************************************************)
(* C23.  Soundness of the pruning test (lines 160-169, 319-320).           *)
(***************************************************************************)
\* the selections a generator looks at in the call: the parent mask
\* restricted to a non-empty subset of the available categories
CallSelections ==
    {get_mask(gen_call.col, gen_call.mask, nc) :
        nc \in SUBSET Avail(gen_call.col, gen_call.mask) \ {{}}}

\* C23: pruning is sound: whenever check_pruning reports a mask with its
\* true sum as not viable, no subset of the rows of the mask has a sum
\* within tolerance of the target, so a matching descendant is never
\* dropped with a state or subset that is not viable
C23_PruningSound ==
    GenPrepared =>
        \A mask \in SUBSET AllRows :
            ~check_pruning(mask, SumRows(mask)) =>
                \A sub \in SUBSET mask : ~Matches(SumRows(sub))

\* a generator call in which one selection was dropped as not viable and
\* another was yielded
C23_Witness ==
    /\ gen_call.pc = "original"
    /\ \E m \in CallSelections : ~check_pruning(m, SumRows(m))
    /\ \E k \in DOMAIN gen_call.original :
          gen_call.original[k].mask # gen_call.mask

(***************************************************************************)
(* C24.  The triples the generators yield.                                 *)
(***************************************************************************)
\* a triple as specified for the call: a non-empty subset of the available
\* categories, the parent mask restricted to it, and the sum of that mask
TripleAsSpecified(t) ==
    /\ t.subset # {}
    /\ t.subset \subseteq Avail(gen_call.col, gen_call.mask)
    /\ t.mask = gen_call.mask \cap OrReduce(gen_call.col, t.subset)
    /\ t.sum = SumRows(t.mask)

\* C24: every triple (subset, mask, sum) yielded by either generator, for
\* any parent mask, has a non-empty subset of the available categories,
\* the parent mask intersected with the union of the subset's category
\* masks, and the sum of the amounts selected by that mask, mirror triples
\* included
C24_TriplesAsSpecified ==
    /\ \A k \in DOMAIN gen_call.original : TripleAsSpecified(gen_call.original[k])
    /\ \A k \in DOMAIN gen_call.new : TripleAsSpecified(gen_call.new[k])

(***************************************************************************)
(* C25.  Original mode: what happens below a subset that is not viable.    *)
(***************************************************************************)
CallAvail == Avail(gen_call.col, gen_call.mask)

CallMask(nc) == get_mask(gen_call.col, gen_call.mask, nc)

\* the subset nc, with its true sum, passes the bound evaluator
SubsetViable(nc) == check_pruning(CallMask(nc), SumRows(CallMask(nc)))

\* the non-empty candidates rec built in the call, and those it was called on
Looked ==
    Range(rec_looked(gen_call.col, CallAvail, gen_call.mask, CallAvail, 0)) \ {{}}

Descended ==
    Range(rec_calls(gen_call.col, CallAvail, gen_call.mask, CallAvail, 0))

\* nc is yielded with its mask and the sum of its mask
YieldedDirect(nc) ==
    \E k \in DOMAIN gen_call.original :
        gen_call.original[k] = Triple(nc, CallMask(nc), SumRows(CallMask(nc)))

\* C25: in Original mode a subset that is not viable is not yielded, but
\* the recursion still visits the subsets obtained from it by further
\* single-element removals, so that a viable subset that is reached only
\* through a subset that is not viable is still yielded
C25_RecursionVisitsBelowNonViable ==
    gen_call.pc = "original" =>
        /\ \A nc \in Looked : (Cardinality(nc) >= 2 /\ ~SubsetViable(nc)) =>
              ~YieldedDirect(nc) /\ nc \in Descended
        /\ \A nc \in SUBSET CallAvail \ {{}} : SubsetViable(nc) => YieldedDirect(nc)

\* C25 as the code has it: a subset that is not viable is not yielded and
\* rec is not called on it (only the first candidate, the whole of avail,
\* is expanded whether it is viable or not); every subset of a subset that
\* is not viable is itself not viable, so every viable non-empty subset of
\* the available categories is still yielded
C25_RecursionStopsAtNonViable ==
    gen_call.pc = "original" =>
        /\ \A nc \in Looked : ~SubsetViable(nc) =>
              ~YieldedDirect(nc) /\ nc \notin Descended
        /\ \A nc \in SUBSET CallAvail \ {{}} :
              /\ SubsetViable(nc) => YieldedDirect(nc)
              /\ ~SubsetViable(nc) => \A sub \in SUBSET nc \ {{}} : ~SubsetViable(sub)

\* a call with three available categories in which rec built a subset of
\* two categories that is not viable and has single-element removals of
\* its own left to try, while another subset was yielded
C25_Witness ==
    /\ gen_call.pc = "original"
    /\ Cardinality(CallAvail) = 3
    /\ \E nc \in Looked :
          /\ ~SubsetViable(nc)
          /\ nc = CallAvail \ {Min(CallAvail)}
    /\ \E nc \in SUBSET CallAvail \ {{}} : nc # CallAvail /\ YieldedDirect(nc)

(***************************************************************************)
(* C29.  Original mode and New mode on the same call.                      *)
(***************************************************************************)
\* C29: for the same column, available categories and parent mask, the two
\* modes yield the same set of (subset, mask, sum) triples; only order and
\* multiplicity differ, and New mode, which skips every subset of a pruned
\* set, drops no triple that Original mode yields
C29_ModesYieldSameTriples ==
    gen_call.pc = "new" => Range(gen_call.original) = Range(gen_call.new)

\* both modes were called where a subset of two categories is not viable,
\* so that New mode skipped its subsets, and the two modes yielded their
\* triples in different orders
C29_Witness ==
    /\ gen_call.pc = "new"
    /\ gen_call.original # gen_call.new
    /\ gen_call.new # <<>>
    /\ \E nc \in SUBSET CallAvail :
          Cardinality(nc) = 2 /\ nc # CallAvail /\ ~SubsetViable(nc)

(***************************************************************************)
(* C26.  mirror_rule (lines 125-133), as process_state calls it (300-302). *)
(***************************************************************************)
\* the categories available at the last-inserted column of the rule under
\* the restriction of the columns inserted before it
AvailableAtLast(rule) ==
    Avail(rule[Len(rule)].col, RuleMask(SubSeq(rule, 1, Len(rule) - 1)))

\* the mirror as specified: the last-inserted column's categories replaced
\* by their complement within the categories available at that column
MirrorWithinAvailable(rule) ==
    IF rule = <<>> THEN <<>>
    ELSE [rule EXCEPT ![Len(rule)].cats = AvailableAtLast(rule) \ @]

\* C26: the mirror rule of a rule R is R except that the category set of
\* the last-inserted column is replaced by its complement within the
\* categories available at that column under the state's restriction, not
\* within all categories of the column; the mirror of the empty rule is
\* the empty rule
C26_MirrorWithinAvailable ==
    \A s \in CreatedStates : mirror_rule(s.rule) = MirrorWithinAvailable(s.rule)

(***************************************************************************)
(* C27.  The column process_state branches on (lines 322-341).             *)
(***************************************************************************)
\* the position of a grouping column in the declared order
Declared(c) == CHOOSE k \in DOMAIN all_columns : all_columns[k] = c

Unconstrained(rule) == Range(all_columns) \ RuleCols(rule)

AvailableCount(c, mask) == Cardinality(Avail(c, mask))

\* col is the column to branch on, as specified
BranchColumnAsSpecified(col, state) ==
    /\ col \in Unconstrained(state.rule)
    /\ IF static_ordering
       THEN \A c \in Unconstrained(state.rule) : Declared(col) <= Declared(c)
       ELSE \A c \in Unconstrained(state.rule) :
               \/ AvailableCount(col, state.mask) < AvailableCount(c, state.mask)
               \/ /\ AvailableCount(col, state.mask) = AvailableCount(c, state.mask)
                  /\ Declared(col) <= Declared(c)

\* C27: process_state branches on the first unconstrained column in
\* declared order when static ordering is on, and otherwise on the
\* unconstrained column with the fewest categories available under the
\* state's mask, ties going to the column declared first; the column is
\* never one the rule constrains already
C27_BranchColumn ==
    \A i \in DOMAIN futures :
        Emitting(futures[i]) =>
            BranchColumnAsSpecified(futures[i].col, futures[i].state)

\* with dynamic ordering a task branches on the first declared column
\* where both unconstrained columns have two categories available
C27_Witness ==
    /\ ~static_ordering
    /\ \E i \in DOMAIN futures :
          /\ Emitting(futures[i])
          /\ futures[i].state.rule = <<>>
          /\ futures[i].col = all_columns[1]
          /\ AvailableCount(all_columns[1], futures[i].state.mask) = 2
          /\ AvailableCount(all_columns[2], futures[i].state.mask) = 2

(***************************************************************************)
(* C28.  Termination of the BFS (lines 365-381, 322-328).  The variable    *)
(* level counts the levels entered, so that the root is in level 1 and a   *)
(* state of level n constrains n - 1 columns.                              *)
(***************************************************************************)
\* the tasks whose state is still held
HeldTasks == {i \in DOMAIN futures : futures[i].st # "done"}

LevelsConstrainOneMoreColumn ==
    /\ \A i \in HeldTasks : Len(futures[i].state.rule) = futures[i].level - 1
    /\ \A i \in DOMAIN futures :
          \A k \in DOMAIN futures[i].next_states :
              Len(futures[i].next_states[k].rule) = futures[i].level
    /\ bfs_pc \in {"loop", "done"} =>
          \A k \in DOMAIN current_level : Len(current_level[k].rule) = level
    /\ bfs_pc \in {"collect", "result", "shutdown"} =>
          \A k \in DOMAIN next_level : Len(next_level[k].rule) = level

FullRuleEmitsNothing ==
    \A i \in HeldTasks :
        Len(futures[i].state.rule) = Len(all_columns) =>
            futures[i].next_states = <<>> /\ ~Emitting(futures[i])

LevelsBounded ==
    /\ level <= Len(all_columns) + 1
    /\ (level = Len(all_columns) + 1 /\ bfs_pc \in {"loop", "done"})
          => current_level = <<>>

\* C28: an uncancelled search() always terminates: every state of a BFS
\* level constrains one column more than the states of the level before,
\* the root none; a state that constrains all k grouping columns emits no
\* children, so the level after that of the full rules is empty and the
\* BFS runs at most k + 1 levels; and a search that is running and is not
\* cancelled returns
C28_SearchTerminates ==
    /\ []LevelsConstrainOneMoreColumn
    /\ []FullRuleEmitsNothing
    /\ []LevelsBounded
    /\ (run_pc = "searching" /\ Uncancelled) ~> (SearchReturned \/ cancel_search)

\* an uncancelled search ran k + 1 levels, the last one holding states that
\* constrain every grouping column, and returned with solutions
C28_Witness ==
    /\ SearchReturned
    /\ Uncancelled
    /\ level = Len(all_columns) + 1
    /\ current_level = <<>>
    /\ Len(candidate_rule_results) >= 2

(***************************************************************************)
(* C30.  ReconWorker.stop (lines 462-463) and the loop of run that reads   *)
(* _stop (lines 505-557).                                                  *)
(***************************************************************************)
Stopped == recon.stop

\* the clusters no engine was started for
NotSearched == DOMAIN recon.clusters \ Range(recon.searched)

\* between two clusters a stopped worker enters no further cluster: it
\* leaves the loop and emits finished with the recon groups as they are
StoppedEntersNoCluster ==
    (Stopped /\ recon.pc = "loop"
       /\ (recon'.pc # recon.pc \/ recon'.k # recon.k)) =>
        /\ recon'.pc = "done"
        /\ recon'.out = "finished"
        /\ recon'.k = recon.k
        /\ recon'.searched = recon.searched
        /\ recon'.recon_group = recon.recon_group
        /\ recon'.global_group_counter = recon.global_group_counter

\* the search of the cluster in progress is not cut short by stop(): it
\* starts, it returns only when a level came out empty with the flag
\* unset and every task done, or raises the exception of a task, and the
\* rules of a search that returned are attributed
StoppedSearchCompletes ==
    /\ (Stopped /\ recon.pc = "search" /\ recon'.pc # "search") =>
          /\ recon'.pc = "searching"
          /\ bfs_pc' = "loop"
          /\ ~cancel_search'
    /\ (Stopped /\ recon.pc = "searching" /\ recon'.pc # "searching") =>
          \/ /\ bfs_pc = "done"
             /\ current_level = <<>>
             /\ ~cancel_search
             /\ \A i \in DOMAIN futures : futures[i].st = "done"
             /\ candidate_rule_results' = candidate_rule_results
             /\ recon'.pc = "attribute"
             /\ recon'.searched = Append(recon.searched, recon.k)
          \/ /\ bfs_pc = "raised"
             /\ ~cancel_search
             /\ \E i \in DOMAIN futures : futures[i].st = "raised"
             /\ recon'.pc = "loop"
             /\ recon'.searched = recon.searched
    /\ (Stopped /\ recon.pc = "attribute" /\ recon'.pc # "attribute") =>
          /\ recon'.pc = "loop"
          /\ recon'.global_group_counter =
                recon.global_group_counter
                  + Len(get_candidate_results(candidate_rule_results))

\* how far the worker is from the end of run once _stop is set: the rest of
\* the cluster in progress, then the head of the loop, then finished
StepsLeft(pc) ==
    CASE pc = "try"       -> 5
      [] pc = "search"    -> 4
      [] pc = "searching" -> 3
      [] pc = "attribute" -> 2
      [] pc = "loop"      -> 1
      [] OTHER            -> 0

\* a generator visits each category set of the column once and yields at
\* most the set and its mirror; a level holds at most the triples of the
\* tasks of the level before it
GenBound == 2 * (2 ^ (MaxCatVal + 1))

WidthBound == GenBound ^ MaxCols

\* the steps a task of the pool can still take
TaskLeft(task) ==
    CASE task.st = "queued"   -> 2 * GenBound + 3
      [] task.st = "running"  -> 2 * GenBound + 2
      [] task.st = "register" -> 1
      [] task.st = "gen"      -> 2 * (Len(task.gen) - task.gi + 1)
      [] task.st = "body"     -> 2 * (Len(task.gen) - task.gi) + 1
      [] OTHER                -> 0

RECURSIVE TasksLeft(_, _)
TasksLeft(tasks, i) ==
    IF i > Len(tasks) THEN 0 ELSE TaskLeft(tasks[i]) + TasksLeft(tasks, i + 1)

\* the steps the driver and the pool can still take in the level in progress
LevelLeft ==
    TasksLeft(futures, 1)
      + CASE bfs_pc = "submit"   -> Len(current_level) * (2 * GenBound + 5) + 4
          [] bfs_pc = "collect"  -> 2 * (Len(futures) - fi + 1) + 2
          [] bfs_pc = "result"   -> 2 * (Len(futures) - fi) + 3
          [] bfs_pc = "shutdown" -> 2
          [] bfs_pc = "loop"     -> 1
          [] OTHER               -> 0

\* the steps search() can still take: the level in progress, then the
\* levels that can follow it
SearchLeft ==
    IF bfs_pc \in {"idle", "done"} THEN 0
    ELSE (MaxCols + 1 - level) * (WidthBound * (2 * GenBound + 5) + 5) + LevelLeft

\* the measure counts what it says
SearchLeftDefined ==
    /\ level <= MaxCols + 1
    /\ Len(current_level) <= WidthBound
    /\ \A i \in DOMAIN futures : Len(futures[i].gen) <= GenBound

\* every step after stop() brings the worker nearer to the end of run: a
\* step of the search leaves less of the search to do, any other step
\* moves run on
StoppedAdvances ==
    Stopped =>
        IF recon' = recon
        THEN recon.pc = "searching" /\ SearchLeft' < SearchLeft
        ELSE StepsLeft(recon'.pc) < StepsLeft(recon.pc)

\* a thread of the pool can take a step
PoolCanStep ==
    \E i \in DOMAIN futures :
        \/ futures[i].st \in {"running", "register", "gen", "body"}
        \/ /\ futures[i].st = "queued"
           /\ Cardinality(Unfinished(futures, i)) < max_workers

\* the driver of the search or a thread of its pool can take a step
SearchNeverBlocked ==
    \/ bfs_pc \in {"loop", "submit", "collect", "done", "raised"}
    \/ bfs_pc = "result"
          /\ \/ futures[fi].st = "done"
             \/ futures[fi].st = "raised" /\ ExecutorDrained
             \/ PoolCanStep
    \/ bfs_pc = "shutdown" /\ (ExecutorDrained \/ PoolCanStep)

\* until finished is emitted the worker's thread can take a step: the
\* guard of ReconLoop or that of ReconFinish holds at the head of the loop,
\* inside the loop the cluster in progress is one of the clusters, and
\* during its search the driver or the pool can step
WorkerNeverBlocked ==
    \/ ReconDone
    \/ /\ recon.pc = "loop"
       /\ \/ recon.k <= Len(recon.clusters) /\ ~recon.stop
          \/ recon.k > Len(recon.clusters) \/ recon.stop
    \/ /\ recon.pc \in {"try", "search", "attribute"}
       /\ recon.k \in DOMAIN recon.clusters
    \/ /\ recon.pc = "searching"
       /\ recon.k \in DOMAIN recon.clusters
       /\ SearchNeverBlocked

\* C30: once ReconWorker.stop() has been called, the worker starts no
\* engine for any further cluster, does not cancel the engine search of the
\* cluster already in progress, and still emits finished with the recon
\* groups assigned so far: its threads can always step, every step brings
\* it nearer to the end of run, and it ends with finished
C30_StopEndsAfterCurrentCluster ==
    /\ [][StoppedEntersNoCluster]_vars
    /\ [][StoppedSearchCompletes]_vars
    /\ [][StoppedAdvances]_vars
    /\ [](~cancel_search)
    /\ []SearchLeftDefined
    /\ []WorkerNeverBlocked
    /\ []((ReconDone /\ Stopped) =>
            /\ recon.out = "finished"
            /\ \A k \in NotSearched :
                  \A r \in DOMAIN recon.clusters[k].rows :
                      recon.recon_group[k][r] = <<>>)

\* stop() was called, the first cluster was searched and its rows got a
\* recon group, the second cluster has two rows or more with numeric
\* amounts and no engine was started for it, and finished was emitted
C30_Witness ==
    /\ ReconDone
    /\ Stopped
    /\ recon.out = "finished"
    /\ Len(recon.clusters) = 2
    /\ recon.searched = <<1>>
    /\ ArrLen(recon.clusters[2].rows) >= 2
    /\ recon.clusters[2].numeric
    /\ \E r \in DOMAIN recon.clusters[1].rows : recon.recon_group[1][r] # <<>>

====
